---- MODULE Spec2Model ----
(***************************************************************************)
(* Focused-ultrasound imaging pipeline: the validator                      *)
(* (src/src/pipeline/validator.py), the processing stage                   *)
(* (src/src/pipeline/processor.py), the loader's entry conditions          *)
(* (src/src/pipeline/loader.py) and the driver run_pipeline (src/main.py). *)
(*                                                                         *)
(* Numbers.  A float is a record [k, v]: k is "fin", "nan", "pinf" or      *)
(* "ninf" and v is the value of a finite float as an integer count of a    *)
(* unit that depends on the quantity:                                      *)
(*   voxel intensities        1e-11  (the variance bound 1e-10 is 10)      *)
(*   voxel spacing            0.001 mm                                     *)
(*   affine entries           1e-7   (the bottom-row tolerance 1e-6 is 10) *)
(*   percentile values        1e-13  (a hundredth of the intensity unit)   *)
(*   volumes                  1e-6 mm^3                                    *)
(* A volume is [shape, fill, spots]: an array of the given shape whose     *)
(* voxels hold `fill` except at the coordinates in DOMAIN spots.  A mask   *)
(* is [shape, v] with v the uint8 entry of every coordinate.  The contents *)
(* of the files run_pipeline writes are not part of the state, only their  *)
(* names in the order of writing.                                          *)
(***************************************************************************)
EXTENDS Integers, Sequences, FiniteSets, TLC

VARIABLES
    entry,        \* the function under call: "validate_or_raise", "validate_image_data",
                  \* "report_api", "run_pipeline" or one of ProcessorEntries
    image_data,   \* ImageData: [data, voxel_spacing, affine]
    args,         \* validate_image_data's keyword arguments
    report,       \* ValidationReport: [checks_passed, warnings, errors]
    pc,           \* position inside the function under call
    raised,       \* the exception that left validate_or_raise or a step of run_pipeline,
                  \* or "none"
    api_calls,    \* report_api: the calls made so far, each [kind, message]
    config,       \* run_pipeline: PipelineConfig [processing, visualization]
    filesystem,   \* run_pipeline: [input, output_directory_exists, failing, written]
    global_state, \* the interpreter: [environ, random_seed, np_random_seed], the
                  \* environment variables set and the states of the two generators
    binary_mask,        \* process_image_for_target_identification: the thresholded mask
    largest_component,  \* process_image_for_target_identification: the selected mask
    target_region,      \* run_pipeline: the TargetRegion
    metrics,      \* run_pipeline: the mapping compute_target_metrics returned
    steps,        \* run_pipeline: the steps begun so far, each [name, status]
    exit_code,    \* run_pipeline: the value returned
    executions    \* the calls of the processing functions that ended earlier in this
                  \* interpreter, each [call, outcome]

pipeline_vars ==
    <<config, filesystem, global_state, binary_mask, largest_component, target_region,
      metrics, steps, exit_code, executions>>

vars ==
    <<entry, image_data, args, report, pc, raised, api_calls, config, filesystem,
      global_state, binary_mask, largest_component, target_region, metrics, steps,
      exit_code, executions>>

(***************************************************************************)
(* Model bounds                                                            *)
(***************************************************************************)
MaxSpots == 2        \* voxels of a volume that differ from its fill value
MaxVoxels == 2147    \* largest volume (data.size) the model builds
MaxApiCalls == 4     \* calls of the ValidationReport interface in one run
MaxExecutions == 2   \* calls of the processing functions that precede a call

(***************************************************************************)
(* Floats                                                                  *)
(***************************************************************************)
Fin(n) == [k |-> "fin", v |-> n]
NaN == [k |-> "nan", v |-> 0]
PosInf == [k |-> "pinf", v |-> 0]
NegInf == [k |-> "ninf", v |-> 0]

\* the doubles 1e308 (n = 1) and -1e308 (n = -1): finite, and so large that
\* the difference of the two exceeds the largest double, 1.797e308
Huge(n) == [k |-> "huge", v |-> n]

IsNaN(x) == x.k = "nan"                       \* np.isnan
IsInf(x) == x.k \in {"pinf", "ninf"}          \* np.isinf
IsFinite(x) == x.k \in {"fin", "huge"}        \* np.isfinite
IsHuge(x) == x.k = "huge"

\* the order of two finite floats: 1e308 is above every count of units
FiniteLess(a, b) ==
    IF IsHuge(a) /\ IsHuge(b) THEN a.v < b.v
    ELSE IF IsHuge(a) THEN a.v < 0
    ELSE IF IsHuge(b) THEN b.v > 0
    ELSE a.v < b.v

\* IEEE comparison a < b: false whenever an operand is NaN
FLt(a, b) ==
    CASE IsNaN(a) \/ IsNaN(b) -> FALSE
      [] a.k = "ninf" -> b.k # "ninf"
      [] a.k = "pinf" -> FALSE
      [] OTHER -> b.k = "pinf" \/ (IsFinite(b) /\ FiniteLess(a, b))

FGt(a, b) == FLt(b, a)
FLe(a, b) == ~IsNaN(a) /\ ~IsNaN(b) /\ (a = b \/ FLt(a, b))

Abs(n) == IF n < 0 THEN -n ELSE n
CeilDiv(a, b) == (a + b - 1) \div b

RECURSIVE Pow10(_)
Pow10(n) == IF n = 0 THEN 1 ELSE 10 * Pow10(n - 1)

(***************************************************************************)
(* Strings: str.lower(), the `in` operator, and number formatting          *)
(***************************************************************************)
UpperToLower ==
    ("A" :> "a") @@ ("B" :> "b") @@ ("C" :> "c") @@ ("D" :> "d") @@ ("E" :> "e") @@
    ("F" :> "f") @@ ("G" :> "g") @@ ("H" :> "h") @@ ("I" :> "i") @@ ("J" :> "j") @@
    ("K" :> "k") @@ ("L" :> "l") @@ ("M" :> "m") @@ ("N" :> "n") @@ ("O" :> "o") @@
    ("P" :> "p") @@ ("Q" :> "q") @@ ("R" :> "r") @@ ("S" :> "s") @@ ("T" :> "t") @@
    ("U" :> "u") @@ ("V" :> "v") @@ ("W" :> "w") @@ ("X" :> "x") @@ ("Y" :> "y") @@
    ("Z" :> "z")

LowerChar(c) == IF c \in DOMAIN UpperToLower THEN UpperToLower[c] ELSE c

\* err.lower(), one character at a time (by halves, to keep the recursion shallow)
RECURSIVE Lower(_)
Lower(s) ==
    IF Len(s) = 0 THEN ""
    ELSE IF Len(s) = 1 THEN LowerChar(s)
    ELSE LET h == Len(s) \div 2
         IN  Lower(SubSeq(s, 1, h)) \o Lower(SubSeq(s, h + 1, Len(s)))

\* t in s
Contains(s, t) == \E i \in 1..(Len(s) - Len(t) + 1) : SubSeq(s, i, i + Len(t) - 1) = t

\* n written with at least w digits (n >= 0)
RECURSIVE ZeroPad(_, _)
ZeroPad(n, w) ==
    IF w <= 1 THEN ToString(n)
    ELSE IF n < Pow10(w - 1) THEN "0" \o ZeroPad(n, w - 1)
    ELSE ToString(n)

\* the digits of a fraction without its trailing zeros, at least one digit
RECURSIVE TrimZeros(_)
TrimZeros(s) ==
    IF Len(s) > 1 /\ SubSeq(s, Len(s), Len(s)) = "0"
    THEN TrimZeros(SubSeq(s, 1, Len(s) - 1)) ELSE s

NonFiniteText(x) ==
    CASE x.k = "nan" -> "nan" [] x.k = "pinf" -> "inf" [] OTHER -> "-inf"

\* the decimal digits of the double 1e308
HugeDigits ==
    "10000000000000000109790636294404554174049230967731184633681068290315758540491149153716"
    \o "33289784946888990612496697211725156115902837431400883283070091981460460312716645029330"
    \o "27185697489699588559043338384466165001178426897626212945177628091195786707458122783970"
    \o "171784415105291802893207873272974885715430223118336"

\* f"{x:.{d}f}" of a float held as a count of 10^-e units, rounded to the
\* nearest multiple of 10^-d
FormatFixed(x, e, d) ==
    IF ~IsFinite(x) THEN NonFiniteText(x)
    ELSE IF IsHuge(x)
    THEN (IF x.v < 0 THEN "-" ELSE "") \o HugeDigits
         \o (IF d = 0 THEN "" ELSE "." \o ZeroPad(0, d))
    ELSE LET q == Pow10(e - d)
             a == Abs(x.v)
             scaled == IF d >= e THEN a * Pow10(d - e)
                       ELSE (a \div q) + (IF 2 * (a % q) >= q THEN 1 ELSE 0)
             sign == IF x.v < 0 THEN "-" ELSE ""
         IN  IF d = 0 THEN sign \o ToString(scaled)
             ELSE sign \o ToString(scaled \div Pow10(d)) \o "." \o ZeroPad(scaled % Pow10(d), d)

\* f"{x}" (repr) of a float held as a count of 10^-e units, e.g. 1.0, 0.001
FormatRepr(x, e) ==
    IF ~IsFinite(x) THEN NonFiniteText(x)
    ELSE IF IsHuge(x) THEN (IF x.v < 0 THEN "-" ELSE "") \o "1e+308"
    ELSE LET a == Abs(x.v)
             sign == IF x.v < 0 THEN "-" ELSE ""
         IN  sign \o ToString(a \div Pow10(e)) \o "." \o TrimZeros(ZeroPad(a % Pow10(e), e))

\* str() of a tuple of integers: (8, 8, 8), (5,), ()
RECURSIVE JoinInts(_, _)
JoinInts(t, i) ==
    IF i > Len(t) THEN ""
    ELSE ToString(t[i]) \o (IF i < Len(t) THEN ", " ELSE "") \o JoinInts(t, i + 1)

FormatTuple(t) ==
    IF Len(t) = 1 THEN "(" \o ToString(t[1]) \o ",)" ELSE "(" \o JoinInts(t, 1) \o ")"

(***************************************************************************)
(* ValidationReport (validator.py)                                         *)
(***************************************************************************)
NewReport == [checks_passed |-> <<>>, warnings |-> <<>>, errors |-> <<>>]

add_pass(r, check_name) == [r EXCEPT !.checks_passed = Append(@, check_name)]
\* a variant that files a warning under the errors
add_warning_AsError(r, message) == [r EXCEPT !.errors = Append(@, message)]

add_warning(r, message) == [r EXCEPT !.warnings = Append(@, message)]
add_error(r, message) == [r EXCEPT !.errors = Append(@, message)]
is_valid(r) == Len(r.errors) = 0

(***************************************************************************)
(* Volumes and numpy's reductions over them                                *)
(***************************************************************************)
RECURSIVE Product(_, _)
Product(t, i) == IF i > Len(t) THEN 1 ELSE t[i] * Product(t, i + 1)

ndim(d) == Len(d.shape)                       \* data.ndim
size(d) == Product(d.shape, 1)                \* data.size
FillCount(d) == size(d) - Cardinality(DOMAIN d.spots)

\* the number of samples of d whose value lies in S, e.g. np.sum(np.isnan(data))
\* for S the NaN values
SampleCount(d, S) ==
    (IF d.fill \in S THEN FillCount(d) ELSE 0)
    + Cardinality({c \in DOMAIN d.spots : d.spots[c] \in S})

\* the distinct values the volume holds
PresentValues(d) ==
    {d.spots[c] : c \in DOMAIN d.spots} \cup (IF FillCount(d) > 0 THEN {d.fill} ELSE {})

NotFinite(x) == ~IsFinite(x)

NaNValuesOf(d) == {x \in PresentValues(d) : IsNaN(x)}
\* a variant that misses -inf
InfValuesOf_PositiveOnly(d) == {x \in PresentValues(d) : x = PosInf}

InfValuesOf(d) == {x \in PresentValues(d) : IsInf(x)}
NonFiniteValuesOf(d) == {x \in PresentValues(d) : NotFinite(x)}

RECURSIVE SumOver(_, _)
SumOver(S, f) ==
    IF S = {} THEN 0
    ELSE LET c == CHOOSE c \in S : TRUE IN f[c] + SumOver(S \ {c}, f)

RECURSIVE IsqrtIn(_, _, _)
IsqrtIn(n, lo, hi) ==
    IF lo >= hi THEN lo
    ELSE LET mid == (lo + hi + 1) \div 2
         IN  IF mid * mid <= n THEN IsqrtIn(n, mid, hi) ELSE IsqrtIn(n, lo, mid - 1)

\* the integer part of the square root of n, 0 <= n < 2^31
Isqrt(n) == IsqrtIn(n, 0, 46340)

\* np.std(data): NaN as soon as one sample is NaN or infinite; inf as soon as
\* one is 1e308 or -1e308, the squares of the deviations from the mean being
\* beyond the largest double (the volumes of the model hold too few samples
\* of -1e308 for the sum that gives the mean to come out as NaN); otherwise
\* sqrt(num) / den, where num = N * sum(y^2) - sum(y)^2 over the deviations
\* y of the samples from a reference value (the standard deviation does not
\* depend on the reference) and den = N.
np_std(d) ==
    IF SampleCount(d, NonFiniteValuesOf(d)) > 0 THEN [k |-> "nan", num |-> 0, den |-> 1]
    ELSE IF \E x \in PresentValues(d) : IsHuge(x) THEN [k |-> "pinf", num |-> 0, den |-> 1]
    ELSE LET ref == IF FillCount(d) > 0 THEN d.fill.v ELSE 0
             y == [c \in DOMAIN d.spots |-> d.spots[c].v - ref]
             s1 == SumOver(DOMAIN y, y)
             s2 == SumOver(DOMAIN y, [c \in DOMAIN y |-> y[c] * y[c]])
         IN  [k |-> "fin", num |-> size(d) * s2 - s1 * s1, den |-> size(d)]

\* std < bound, for a bound given in intensity units
StdLess(std, bound) == std.k = "fin" /\ std.num < bound * bound * std.den * std.den

\* np.min(data), np.max(data): NaN as soon as one sample is NaN
np_min(d) ==
    IF SampleCount(d, NaNValuesOf(d)) > 0 THEN NaN
    ELSE CHOOSE x \in PresentValues(d) : \A y \in PresentValues(d) : FLe(x, y)

np_max(d) ==
    IF SampleCount(d, NaNValuesOf(d)) > 0 THEN NaN
    ELSE CHOOSE x \in PresentValues(d) : \A y \in PresentValues(d) : FLe(y, x)

\* f"{std:.4f}" and f"{std:.2e}" of a standard deviation
FormatStdFixed(std) ==
    IF std.k # "fin" THEN NonFiniteText(std) ELSE FormatFixed(Fin(Isqrt(std.num) \div std.den), 11, 4)

\* exact for a zero deviation; a non-zero one is written with the leading
\* digit that the integer square root gives
FormatStdSci(std) ==
    IF std.k # "fin" THEN NonFiniteText(std)
    ELSE IF std.num = 0 THEN "0.00e+00"
    ELSE LET t == Isqrt(std.num) \div std.den
         IN  IF t >= 10 THEN ToString(t \div 10) \o "." \o ToString(t % 10) \o "0e-10"
             ELSE IF t >= 1 THEN ToString(t) \o ".00e-11"
             ELSE ToString((Isqrt(std.num) * 10) \div std.den) \o ".00e-12"

\* f"{fraction*100:.4f}" of the fraction count / total
FormatPercent(count, total) ==
    LET n == count * 1000000
    IN  FormatFixed(Fin((n \div total) + (IF 2 * (n % total) >= total THEN 1 ELSE 0)), 4, 4)

(***************************************************************************)
(* Program constants (validator.py)                                        *)
(***************************************************************************)
MIN_VOXEL_SPACING_MM == 10        \* 0.01 mm
MAX_VOXEL_SPACING_MM == 50000     \* 50.0 mm
ABSOLUTE_MIN_DIMENSION == 8
ABSOLUTE_MAX_DIMENSION == 2048
TypicalSpacingMin == 100          \* 0.1 mm
TypicalSpacingMax == 10000        \* 10.0 mm
VarianceBound == 10               \* 1e-10
AffineOne == 10000000             \* 1.0 as an affine entry
BottomRowAtol == 10               \* atol = 1e-6
AllcloseRtolInv == 100000         \* np.allclose's default rtol = 1e-5 = 1 / 100000
BlockStep == 1000000              \* 0.1 as an affine entry
DetBoundInv == 10000000           \* 1e-10 = 1 / 10^7 of the determinant's unit 1e-3

None == <<>>

DefaultArgs ==
    [min_dimension_size |-> ABSOLUTE_MIN_DIMENSION,
     max_dimension_size |-> ABSOLUTE_MAX_DIMENSION,
     expected_value_range |-> None]

(***************************************************************************)
(* _validate_affine_matrix (validator.py)                                  *)
(* An affine is [shape, m]: m[i][j] is the entry of row i, column j.       *)
(***************************************************************************)
AllFinite(affine) ==
    \A i \in 1..affine.shape[1] : \A j \in 1..affine.shape[2] : IsFinite(affine.m[i][j])

expected_bottom == <<0, 0, 0, AffineOne>>

\* np.allclose(row, expected_bottom, atol=1e-6): |a - b| <= atol + rtol * |b|
BottomRowClose(affine) ==
    \A j \in 1..4 :
        Abs(affine.m[4][j].v - expected_bottom[j])
            <= BottomRowAtol + Abs(expected_bottom[j]) \div AllcloseRtolInv

\* np.linalg.det(affine[:3, :3]) in units of 1e-3; the entries of the
\* submatrix are multiples of 0.1
Det3(affine) ==
    LET a == [i \in 1..3 |-> [j \in 1..3 |-> affine.m[i][j].v \div BlockStep]]
    IN    a[1][1] * (a[2][2] * a[3][3] - a[2][3] * a[3][2])
        - a[1][2] * (a[2][1] * a[3][3] - a[2][3] * a[3][1])
        + a[1][3] * (a[2][1] * a[3][2] - a[2][2] * a[3][1])

\* np.abs(det) < 1e-10
DetSingular(det) == Abs(det) < CeilDiv(1, DetBoundInv)

\* str() of a row of floats as numpy prints it: [1. 0. 0. 1.]
FormatNpFloat(x) ==
    IF x.v % AffineOne = 0 THEN ToString(x.v \div AffineOne) \o "." ELSE FormatRepr(x, 7)

FormatRow(row) ==
    "[" \o FormatNpFloat(row[1]) \o " " \o FormatNpFloat(row[2]) \o " "
        \o FormatNpFloat(row[3]) \o " " \o FormatNpFloat(row[4]) \o "]"

\* f"{x:.2e}" of the number n * 10^-e
FormatSci(n, e) ==
    IF n = 0 THEN "0.00e+00"
    ELSE LET a == Abs(n)
             len == Len(ToString(a))
             q == Pow10(len - 3)
             m0 == IF len <= 3 THEN a * Pow10(3 - len)
                   ELSE (a \div q) + (IF 2 * (a % q) >= q THEN 1 ELSE 0)
             mant == IF m0 = 1000 THEN 100 ELSE m0
             exp == (IF m0 = 1000 THEN len ELSE len - 1) - e
         IN  (IF n < 0 THEN "-" ELSE "") \o ToString(mant \div 100) \o "."
             \o ZeroPad(mant % 100, 2) \o "e" \o (IF exp < 0 THEN "-" ELSE "+")
             \o ZeroPad(Abs(exp), 2)

\* Check 1: must be 4x4
AffineShapeOk(affine) == affine.shape = <<4, 4>>

\* Checks 3 to 5 of the affine: bottom row, singularity, reflection
AffineBottomRow(affine, r) ==
    IF ~BottomRowClose(affine)
    THEN add_error(r, "Affine matrix bottom row must be [0, 0, 0, 1], got "
                      \o FormatRow(affine.m[4]))
    ELSE add_pass(r, "Affine matrix bottom row is [0, 0, 0, 1]")

AffineSingular(affine, r) ==
    LET det == Det3(affine)
    IN  IF DetSingular(det)
        THEN add_error(r, "Affine rotation/scale submatrix is singular (det="
                          \o FormatSci(det, 3) \o ")")
        ELSE add_pass(r, "Affine rotation/scale submatrix is non-singular (det="
                         \o FormatFixed(Fin(det), 3, 4) \o ")")

\* a variant that treats a reflection as an error
AffineReflection_AsError(affine, r) ==
    LET det == Det3(affine)
    IN  IF det < 0
        THEN add_error(r, "Affine matrix has negative determinant ("
                          \o FormatFixed(Fin(det), 3, 4)
                          \o "), indicating coordinate system reflection")
        ELSE r

AffineReflection(affine, r) ==
    LET det == Det3(affine)
    IN  IF det < 0
        THEN add_warning(r, "Affine matrix has negative determinant ("
                            \o FormatFixed(Fin(det), 3, 4)
                            \o "), indicating coordinate system reflection")
        ELSE r

\* a variant that returns after the bottom-row check found an error
_validate_affine_matrix_StopAtBottomRow(affine, r) ==
    IF ~AffineShapeOk(affine)
    THEN add_error(r, "Affine matrix must be 4x4, got shape " \o FormatTuple(affine.shape))
    ELSE LET r1 == add_pass(r, "Affine matrix is 4x4")
         IN  IF ~AllFinite(affine)
             THEN add_error(r1, "Affine matrix contains non-finite values (NaN or Inf)")
             ELSE LET r2 == add_pass(r1, "Affine matrix contains only finite values")
                      r3 == AffineBottomRow(affine, r2)
                  IN  IF Len(r3.errors) > Len(r2.errors) THEN r3
                      ELSE AffineReflection(affine, AffineSingular(affine, r3))

_validate_affine_matrix(affine, r) ==
    IF ~AffineShapeOk(affine)
    THEN add_error(r, "Affine matrix must be 4x4, got shape " \o FormatTuple(affine.shape))
    ELSE LET r1 == add_pass(r, "Affine matrix is 4x4")
         IN  IF ~AllFinite(affine)
             THEN add_error(r1, "Affine matrix contains non-finite values (NaN or Inf)")
             ELSE LET r2 == add_pass(r1, "Affine matrix contains only finite values")
                  IN  AffineReflection(affine, AffineSingular(affine, AffineBottomRow(affine, r2)))

(***************************************************************************)
(* _validate_voxel_spacing (validator.py)                                  *)
(***************************************************************************)
\* a variant whose physical bounds are exclusive: 0.01 mm and 50.0 mm are refused
SpacingAxis_BoundsRefused(i, sp, r) ==
    LET axis == ToString(i)
    IN  IF FLe(sp, Fin(0))
        THEN add_error(r, "Voxel spacing dimension " \o axis \o " must be positive, got "
                          \o FormatRepr(sp, 3) \o " mm")
        ELSE IF ~IsFinite(sp)
        THEN add_error(r, "Voxel spacing dimension " \o axis \o " must be finite, got "
                          \o FormatRepr(sp, 3))
        ELSE IF FLe(sp, Fin(MIN_VOXEL_SPACING_MM))
        THEN add_error(r, "Voxel spacing dimension " \o axis \o " (" \o FormatRepr(sp, 3)
                          \o " mm) below minimum threshold ("
                          \o FormatRepr(Fin(MIN_VOXEL_SPACING_MM), 3) \o " mm)")
        ELSE IF FLe(Fin(MAX_VOXEL_SPACING_MM), sp)
        THEN add_error(r, "Voxel spacing dimension " \o axis \o " (" \o FormatRepr(sp, 3)
                          \o " mm) exceeds maximum threshold ("
                          \o FormatRepr(Fin(MAX_VOXEL_SPACING_MM), 3) \o " mm)")
        ELSE IF FLt(sp, Fin(TypicalSpacingMin)) \/ FGt(sp, Fin(TypicalSpacingMax))
        THEN add_warning(r, "Unusual voxel spacing dimension " \o axis \o ": "
                            \o FormatFixed(sp, 3, 3) \o " mm (typical range: 0.1-10.0 mm)")
        ELSE add_pass(r, "Voxel spacing dimension " \o axis \o ": "
                         \o FormatFixed(sp, 3, 3) \o " mm")

\* the body of the loop for axis i (0-based) with spacing sp
SpacingAxis(i, sp, r) ==
    LET axis == ToString(i)
    IN  IF FLe(sp, Fin(0))
        THEN add_error(r, "Voxel spacing dimension " \o axis \o " must be positive, got "
                          \o FormatRepr(sp, 3) \o " mm")
        ELSE IF ~IsFinite(sp)
        THEN add_error(r, "Voxel spacing dimension " \o axis \o " must be finite, got "
                          \o FormatRepr(sp, 3))
        ELSE IF FLt(sp, Fin(MIN_VOXEL_SPACING_MM))
        THEN add_error(r, "Voxel spacing dimension " \o axis \o " (" \o FormatRepr(sp, 3)
                          \o " mm) below minimum threshold ("
                          \o FormatRepr(Fin(MIN_VOXEL_SPACING_MM), 3) \o " mm)")
        ELSE IF FGt(sp, Fin(MAX_VOXEL_SPACING_MM))
        THEN add_error(r, "Voxel spacing dimension " \o axis \o " (" \o FormatRepr(sp, 3)
                          \o " mm) exceeds maximum threshold ("
                          \o FormatRepr(Fin(MAX_VOXEL_SPACING_MM), 3) \o " mm)")
        ELSE IF FLt(sp, Fin(TypicalSpacingMin)) \/ FGt(sp, Fin(TypicalSpacingMax))
        THEN add_warning(r, "Unusual voxel spacing dimension " \o axis \o ": "
                            \o FormatFixed(sp, 3, 3) \o " mm (typical range: 0.1-10.0 mm)")
        ELSE add_pass(r, "Voxel spacing dimension " \o axis \o ": "
                         \o FormatFixed(sp, 3, 3) \o " mm")

RECURSIVE SpacingFrom(_, _, _)
SpacingFrom(spacing, i, r) ==
    IF i > Len(spacing) THEN r
    ELSE SpacingFrom(spacing, i + 1, SpacingAxis(i - 1, spacing[i], r))

_validate_voxel_spacing(spacing, r) == SpacingFrom(spacing, 1, r)

(***************************************************************************)
(* validate_image_data (validator.py), one operator per numbered check     *)
(***************************************************************************)
\* a rank test that lets arrays of higher rank through
RankOk_AtLeast3(img) == ndim(img.data) >= 3

\* Check 1: 3D dimensionality
RankOk(img) == ndim(img.data) = 3

CheckRank(img, r) ==
    IF ~RankOk(img)
    THEN add_error(r, "Pipeline requires 3D volumetric data, got "
                      \o ToString(ndim(img.data)) \o "D array. Shape: "
                      \o FormatTuple(img.data.shape))
    ELSE add_pass(r, "Dimensionality check: 3D (shape: "
                     \o FormatTuple(img.data.shape) \o ")")

\* Check 2: dimension sizes, the body of the loop for axis i (0-based)
DimAxis(i, dim_size, a, r) ==
    IF dim_size < a.min_dimension_size
    THEN add_error(r, "Dimension " \o ToString(i) \o " size (" \o ToString(dim_size)
                      \o ") below minimum threshold ("
                      \o ToString(a.min_dimension_size) \o " voxels)")
    ELSE IF dim_size > a.max_dimension_size
    THEN add_error(r, "Dimension " \o ToString(i) \o " size (" \o ToString(dim_size)
                      \o ") exceeds maximum threshold ("
                      \o ToString(a.max_dimension_size) \o " voxels)")
    ELSE add_pass(r, "Dimension " \o ToString(i) \o " size valid: "
                     \o ToString(dim_size) \o " voxels")

RECURSIVE DimsFrom(_, _, _, _)
DimsFrom(shape, i, a, r) ==
    IF i > Len(shape) THEN r
    ELSE DimsFrom(shape, i + 1, a, DimAxis(i - 1, shape[i], a, r))

CheckDimensionSizes(img, a, r) == DimsFrom(img.data.shape, 1, a, r)

\* Check 3: no NaN values
CheckNaN(img, r) ==
    LET nan_count == SampleCount(img.data, NaNValuesOf(img.data))
    IN  IF nan_count > 0
        THEN add_error(r, "Data contains " \o ToString(nan_count) \o " NaN values ("
                          \o FormatPercent(nan_count, size(img.data))
                          \o "% of total voxels)")
        ELSE add_pass(r, "No NaN values detected")

\* a variant that stops looking once the report holds an error
CheckInf_UnlessErrors(img, r) ==
    LET inf_count == SampleCount(img.data, InfValuesOf(img.data))
    IN  IF ~is_valid(r) THEN r
        ELSE IF inf_count > 0
        THEN add_error(r, "Data contains " \o ToString(inf_count) \o " infinite values ("
                          \o FormatPercent(inf_count, size(img.data))
                          \o "% of total voxels)")
        ELSE add_pass(r, "No infinite values detected")

\* Check 4: no infinite values
CheckInf(img, r) ==
    LET inf_count == SampleCount(img.data, InfValuesOf(img.data))
    IN  IF inf_count > 0
        THEN add_error(r, "Data contains " \o ToString(inf_count) \o " infinite values ("
                          \o FormatPercent(inf_count, size(img.data))
                          \o "% of total voxels)")
        ELSE add_pass(r, "No infinite values detected")

\* Check 5: data is not constant
CheckVariance(img, r) ==
    LET data_std == np_std(img.data)
    IN  IF StdLess(data_std, VarianceBound)
        THEN add_error(r, "Data has zero variance (std=" \o FormatStdSci(data_std)
                          \o "), indicating constant values or numerical precision issues")
        ELSE add_pass(r, "Data has non-zero variance (std="
                         \o FormatStdFixed(data_std) \o ")")

\* Check 6: value range
CheckValueRange(img, a, r) ==
    LET data_min == np_min(img.data)
        data_max == np_max(img.data)
        range == "[" \o FormatFixed(data_min, 11, 2) \o ", "
                     \o FormatFixed(data_max, 11, 2) \o "]"
    IN  IF a.expected_value_range # None
        THEN LET expected_min == a.expected_value_range[1]
                 expected_max == a.expected_value_range[2]
             IN  IF FLt(data_min, expected_min) \/ FGt(data_max, expected_max)
                 THEN add_warning(r, "Data range " \o range \o " outside expected range ["
                                     \o FormatFixed(expected_min, 11, 2) \o ", "
                                     \o FormatFixed(expected_max, 11, 2) \o "]")
                 ELSE add_pass(r, "Value range " \o range \o " within expected bounds")
        ELSE add_pass(r, "Value range: " \o range)

\* Checks 7 and 8
CheckSpacing(img, r) == _validate_voxel_spacing(img.voxel_spacing, r)
CheckAffine(img, r) == _validate_affine_matrix(img.affine, r)

\* the whole function: the report it returns
validate_image_data(img, a) ==
    IF ~RankOk(img) THEN CheckRank(img, NewReport)
    ELSE CheckAffine(img,
           CheckSpacing(img,
             CheckValueRange(img, a,
               CheckVariance(img,
                 CheckInf(img,
                   CheckNaN(img,
                     CheckDimensionSizes(img, a,
                       CheckRank(img, NewReport))))))))

(***************************************************************************)
(* validate_or_raise (validator.py): the classification of a report        *)
(***************************************************************************)
\* the errors of a report, as `for err in report.errors` visits them
ErrorsOf(r) == {r.errors[n] : n \in 1..Len(r.errors)}

IsDimensionalityText(err) == Contains(err, "3D") \/ Contains(Lower(err), "dimension")

\* a keyword list without the two variance keywords
IsDataQualityText_NoVariance(err) ==
    \E term \in {"nan", "infinite"} : Contains(Lower(err), term)

IsDataQualityText(err) ==
    \E term \in {"nan", "infinite", "constant", "variance"} : Contains(Lower(err), term)

\* a keyword list that knows the spacing errors only
IsMetadataText_SpacingOnly(err) == Contains(Lower(err), "spacing")

IsMetadataText(err) ==
    \E term \in {"spacing", "affine", "matrix"} : Contains(Lower(err), term)

\* a validate_or_raise that never raises
Classify_NeverRaises(r) == "none"

\* the exception validate_or_raise raises for report r, "none" for a valid one
Classify(r) ==
    IF is_valid(r) THEN "none"
    ELSE IF (\E err \in ErrorsOf(r) : IsDimensionalityText(err)) THEN "DimensionalityError"
    ELSE IF (\E err \in ErrorsOf(r) : IsDataQualityText(err)) THEN "DataQualityError"
    ELSE IF (\E err \in ErrorsOf(r) : IsMetadataText(err)) THEN "MetadataError"
    ELSE "ValidationError"

(***************************************************************************)
(* apply_intensity_threshold (processor.py)                                *)
(*                                                                         *)
(* A mask is [shape, v]: v gives every coordinate of the shape its uint8   *)
(* entry.  Percentiles are whole percents.  A percentile value is a float  *)
(* in hundredths of the intensity unit, so that the linear interpolation   *)
(* between two samples is exact.                                           *)
(***************************************************************************)
RECURSIVE CoordsFrom(_, _)
CoordsFrom(shape, i) ==
    IF i > Len(shape) THEN {<<>>}
    ELSE {<<x>> \o c : x \in 0..(shape[i] - 1), c \in CoordsFrom(shape, i + 1)}

\* the index tuples of an array of the given shape
Coords(shape) == CoordsFrom(shape, 1)

ValueAt(d, c) == IF c \in DOMAIN d.spots THEN d.spots[c] ELSE d.fill     \* data[c]

PercentScale == 100

\* the number of samples below v, and the k-th smallest sample (k from 0)
CountLess(d, v) ==
    SumOver({u \in PresentValues(d) : FLt(u, v)},
            [u \in PresentValues(d) |-> SampleCount(d, {u})])
Kth(d, k) ==
    CHOOSE v \in PresentValues(d) :
        CountLess(d, v) <= k /\ k < CountLess(d, v) + SampleCount(d, {v})

\* numpy's _lerp(a, b, t) for t = tnum / PercentScale and a <= b:
\* a + (b - a) * t, replaced by b - (b - a) * (1 - t) where t >= 0.5.
\* 1e308 - (-1e308) overflows to inf, and inf * 0 is NaN.  An array of the
\* model holds samples of ordinary magnitude or samples of magnitude 1e308,
\* never both.
Lerp(a, b, tnum) ==
    CASE a.k = "fin" /\ b.k = "fin" -> Fin(PercentScale * a.v + tnum * (b.v - a.v))
      [] IsHuge(a) /\ IsHuge(b) ->
            IF a = b THEN a
            ELSE IF tnum = 0 THEN NaN
            ELSE IF 2 * tnum < PercentScale THEN PosInf
            ELSE NegInf
      [] ~IsFinite(a) \/ ~IsFinite(b) ->
            IF IsFinite(a) /\ b = PosInf /\ tnum > 0 /\ 2 * tnum < PercentScale THEN PosInf
            ELSE IF a = NegInf /\ IsFinite(b) /\ 2 * tnum >= PercentScale THEN NegInf
            ELSE NaN

\* a variant whose result depends on what was called before: once
\* process_image_for_target_identification has run in the interpreter it
\* gives the maximum
np_percentile_AfterProcess(d, q) ==
    LET n == size(d)
        pos == q * (n - 1)
        lo == pos \div PercentScale
        hi == IF lo + 1 < n THEN lo + 1 ELSE lo
    IN  IF SampleCount(d, NaNValuesOf(d)) > 0 THEN NaN
        ELSE IF \E e \in 1..Len(executions) :
                    executions[e].call.entry = "process_image_for_target_identification"
        THEN Lerp(Kth(d, n - 1), Kth(d, n - 1), 0)
        ELSE Lerp(Kth(d, lo), Kth(d, hi), pos % PercentScale)

\* np.percentile(data, q), linear interpolation between the closest ranks
np_percentile(d, q) ==
    LET n == size(d)
        pos == q * (n - 1)
        lo == pos \div PercentScale
        hi == IF lo + 1 < n THEN lo + 1 ELSE lo
    IN  IF SampleCount(d, NaNValuesOf(d)) > 0 THEN NaN
        ELSE Lerp(Kth(d, lo), Kth(d, hi), pos % PercentScale)

\* a sample in the unit of percentile values
InPercentileUnit(x) == IF x.k = "fin" THEN Fin(PercentScale * x.v) ELSE x

\* a variant that keeps only the voxels strictly above the threshold
apply_intensity_threshold_Strict(d, q) ==
    LET threshold_value == np_percentile(d, q)
    IN  [shape |-> d.shape,
         v |-> [c \in Coords(d.shape) |->
                   IF FLt(threshold_value, InPercentileUnit(ValueAt(d, c))) THEN 1 ELSE 0]]

apply_intensity_threshold(d, q) ==
    LET threshold_value == np_percentile(d, q)
    IN  [shape |-> d.shape,
         v |-> [c \in Coords(d.shape) |->
                   IF FLe(threshold_value, InPercentileUnit(ValueAt(d, c))) THEN 1 ELSE 0]]

\* the coordinates of the non-zero entries: np.argwhere(mask)
On(mask) == {c \in DOMAIN mask.v : mask.v[c] # 0}

\* np.sum(mask)
MaskSum(mask) ==
    LET entries == {mask.v[c] : c \in DOMAIN mask.v}
    IN  SumOver(entries, [e \in entries |-> e * Cardinality({c \in DOMAIN mask.v : mask.v[c] = e})])

(***************************************************************************)
(* extract_largest_connected_component (processor.py)                      *)
(*                                                                         *)
(* ndimage.label with its default structuring element joins voxels that    *)
(* share a face and numbers the components in the order in which a scan of *)
(* the array in index order (last axis fastest) meets them.  Its result is *)
(* modelled as the sequence of components: comps[l] holds the coordinates  *)
(* labelled l, Len(comps) is num_features.                                 *)
(***************************************************************************)
\* a variant that also joins voxels across edges and corners (26 neighbours)
Neighbors_WithDiagonals(c) ==
    {[a \in 1..Len(c) |-> c[a] + d[a]] : d \in [1..Len(c) -> {-1, 0, 1}]} \ {c}

Neighbors(c) ==
    {[c EXCEPT ![a] = @ + 1] : a \in 1..Len(c)} \cup {[c EXCEPT ![a] = @ - 1] : a \in 1..Len(c)}

RECURSIVE Flood(_, _, _)
Flood(on, seen, frontier) ==
    IF frontier = {} THEN seen
    ELSE LET new == {n \in UNION {Neighbors(c) : c \in frontier} : n \in on /\ n \notin seen}
         IN  Flood(on, seen \cup new, new)

MinOf(T) == CHOOSE x \in T : \A y \in T : x <= y
\* a variant that gives the end of the half-open range, max + 1
MaxOf_Exclusive(T) == (CHOOSE x \in T : \A y \in T : y <= x) + 1

MaxOf(T) == CHOOSE x \in T : \A y \in T : y <= x

\* the first coordinate of S in index order
RECURSIVE FirstFrom(_, _)
FirstFrom(S, a) ==
    LET c0 == CHOOSE c \in S : TRUE
    IN  IF a > Len(c0) THEN c0
        ELSE LET lo == MinOf({c[a] : c \in S}) IN FirstFrom({c \in S : c[a] = lo}, a + 1)

RECURSIVE LabelFrom(_, _)
LabelFrom(on, rest) ==
    IF rest = {} THEN <<>>
    ELSE LET seed == FirstFrom(rest, 1)
             comp == Flood(on, {seed}, {seed})
         IN  <<comp>> \o LabelFrom(on, rest \ comp)

\* a variant that labels the background voxels along with the foreground
ndimage_label_WithBackground(mask) == LabelFrom(DOMAIN mask.v, DOMAIN mask.v)

ndimage_label(mask) == LabelFrom(On(mask), On(mask))

\* voxel_spacing[0] * voxel_spacing[1] * voxel_spacing[2] in 1e-6 mm^3, for
\* spacings that are multiples of 0.01 mm
SpacingStep == 10
voxel_volume_mm3(voxel_spacing) ==
    (voxel_spacing[1].v \div SpacingStep) * (voxel_spacing[2].v \div SpacingStep)
        * (voxel_spacing[3].v \div SpacingStep)

\* a variant that sorts by ascending volume
StaysBefore_Ascending(a, b) == a.volume_mm3 <= b.volume_mm3

\* a variant of an unstable sort: of two equal volumes the later one goes first
StaysBefore_Unstable(a, b) == a.volume_mm3 > b.volume_mm3

\* whether a, which precedes b in the list, stays before it when the list is
\* sorted by descending volume
StaysBefore(a, b) == a.volume_mm3 >= b.volume_mm3

\* list.sort(key=volume, reverse=True): stable, equal volumes keep their order
RECURSIVE InsertByVolume(_, _)
InsertByVolume(sorted, x) ==
    IF sorted = <<>> THEN <<x>>
    ELSE IF StaysBefore(Head(sorted), x)
    THEN <<Head(sorted)>> \o InsertByVolume(Tail(sorted), x)
    ELSE <<x>> \o sorted

RECURSIVE SortByVolume(_, _)
SortByVolume(seq, n) ==
    IF n = 0 THEN <<>> ELSE InsertByVolume(SortByVolume(seq, n - 1), seq[n])

\* a variant that wants more than the minimum volume
VolumeClears_Strict(volume, min_volume_mm3) == volume > min_volume_mm3.v

\* volume >= min_volume_mm3
VolumeClears(volume, min_volume_mm3) == volume >= min_volume_mm3.v

\* the first entry of the sorted list with volume >= min_volume_mm3, or None
RECURSIVE FirstAtLeast(_, _)
FirstAtLeast(sorted, min_volume_mm3) ==
    IF sorted = <<>> THEN None
    ELSE IF VolumeClears(Head(sorted).volume_mm3, min_volume_mm3) THEN Head(sorted)
    ELSE FirstAtLeast(Tail(sorted), min_volume_mm3)

\* a variant that leaves the list in label order
extract_largest_connected_component_Unsorted(mask, min_volume_mm3, voxel_spacing) ==
    LET comps == ndimage_label(mask)
        component_volumes ==
            [l \in 1..Len(comps) |->
                [label |-> l,
                 volume_mm3 |-> Cardinality(comps[l]) * voxel_volume_mm3(voxel_spacing)]]
        chosen == FirstAtLeast(component_volumes, min_volume_mm3)
    IN  IF Len(comps) = 0 \/ chosen = None THEN None
        ELSE [shape |-> mask.shape,
              v |-> [c \in DOMAIN mask.v |->
                        IF c \in comps[chosen.label] THEN 1 ELSE 0]]

extract_largest_connected_component(mask, min_volume_mm3, voxel_spacing) ==
    LET comps == ndimage_label(mask)
        component_volumes ==
            [l \in 1..Len(comps) |->
                [label |-> l,
                 volume_mm3 |-> Cardinality(comps[l]) * voxel_volume_mm3(voxel_spacing)]]
        chosen == FirstAtLeast(SortByVolume(component_volumes, Len(comps)), min_volume_mm3)
    IN  IF Len(comps) = 0 \/ chosen = None THEN None
        ELSE [shape |-> mask.shape,
              v |-> [c \in DOMAIN mask.v |->
                        IF c \in comps[chosen.label] THEN 1 ELSE 0]]

(***************************************************************************)
(* TargetRegion (processor.py).  A mean is kept unrounded as [num, den].   *)
(***************************************************************************)
\* the sum of the a-th index over the coordinates in S
AxisSum(S, a) ==
    LET indices == {c[a] : c \in S}
    IN  SumOver(indices, [x \in indices |-> x * Cardinality({c \in S : c[a] = x})])

\* a variant whose centroid is rounded down to an index
TargetRegion_RoundedCentroid(mask, label, voxel_spacing) ==
    LET coords == On(mask)
        voxel_count == MaskSum(mask)
    IN  [mask |-> mask,
         label |-> label,
         voxel_spacing |-> voxel_spacing,
         voxel_count |-> voxel_count,
         volume_mm3 |-> Fin(voxel_count * voxel_volume_mm3(voxel_spacing)),
         centroid_voxels |->
            [a \in 1..3 |-> [num |-> AxisSum(coords, a) \div Cardinality(coords), den |-> 1]],
         centroid_physical |->
            [a \in 1..3 |-> [num |-> (AxisSum(coords, a) \div Cardinality(coords))
                                        * voxel_spacing[a].v,
                             den |-> 1]],
         bounding_box |->
            [a \in 1..3 |-> <<MinOf({c[a] : c \in coords}), MaxOf({c[a] : c \in coords})>>]]

TargetRegion(mask, label, voxel_spacing) ==
    LET coords == On(mask)
        voxel_count == MaskSum(mask)
    IN  [mask |-> mask,
         label |-> label,
         voxel_spacing |-> voxel_spacing,
         voxel_count |-> voxel_count,
         volume_mm3 |-> Fin(voxel_count * voxel_volume_mm3(voxel_spacing)),
         centroid_voxels |->
            [a \in 1..3 |-> [num |-> AxisSum(coords, a), den |-> Cardinality(coords)]],
         centroid_physical |->
            [a \in 1..3 |-> [num |-> AxisSum(coords, a) * voxel_spacing[a].v,
                             den |-> Cardinality(coords)]],
         bounding_box |->
            [a \in 1..3 |-> <<MinOf({c[a] : c \in coords}), MaxOf({c[a] : c \in coords})>>]]

(***************************************************************************)
(* compute_target_metrics (metrics.py)                                     *)
(***************************************************************************)
\* a variant that takes the difference of the two indices for the extent
Extent_Difference(target, a) == target.bounding_box[a][2] - target.bounding_box[a][1]

Extent(target, a) == target.bounding_box[a][2] - target.bounding_box[a][1] + 1

compute_target_metrics(target) ==
    [volume_mm3 |-> target.volume_mm3,
     voxel_count |-> target.voxel_count,
     centroid_voxel_x |-> target.centroid_voxels[1],
     centroid_voxel_y |-> target.centroid_voxels[2],
     centroid_voxel_z |-> target.centroid_voxels[3],
     centroid_physical_x_mm |-> target.centroid_physical[1],
     centroid_physical_y_mm |-> target.centroid_physical[2],
     centroid_physical_z_mm |-> target.centroid_physical[3],
     bbox_x_min |-> target.bounding_box[1][1],
     bbox_x_max |-> target.bounding_box[1][2],
     bbox_y_min |-> target.bounding_box[2][1],
     bbox_y_max |-> target.bounding_box[2][2],
     bbox_z_min |-> target.bounding_box[3][1],
     bbox_z_max |-> target.bounding_box[3][2],
     bbox_width_voxels |-> Extent(target, 1),
     bbox_height_voxels |-> Extent(target, 2),
     bbox_depth_voxels |-> Extent(target, 3),
     bbox_width_mm |-> Fin(Extent(target, 1) * target.voxel_spacing[1].v),
     bbox_height_mm |-> Fin(Extent(target, 2) * target.voxel_spacing[2].v),
     bbox_depth_mm |-> Fin(Extent(target, 3) * target.voxel_spacing[3].v),
     voxel_spacing_x_mm |-> target.voxel_spacing[1],
     voxel_spacing_y_mm |-> target.voxel_spacing[2],
     voxel_spacing_z_mm |-> target.voxel_spacing[3]]

(***************************************************************************)
(* load_nifti_image and ImageData (loader.py)                              *)
(*                                                                         *)
(* A source file is [name, exists, readable, parsable, extractable, data,  *)
(* affine, zooms]: whether the path exists, whether its bytes can be read  *)
(* for the checksum, whether nib.load and the extraction of the array      *)
(* succeed, and what the file then yields.                                 *)
(***************************************************************************)
EndsWith(s, suffix) ==
    Len(s) >= Len(suffix) /\ SubSeq(s, Len(s) - Len(suffix) + 1, Len(s)) = suffix

Loaded(image) == [exc |-> "none", image |-> image]
LoadFailed(exc) == [exc |-> exc, image |-> None]

\* a loader without the check of the array's rank
load_nifti_image_AnyRank(file) ==
    IF ~file.exists THEN LoadFailed("ImageLoadError")
    ELSE IF ~(EndsWith(file.name, ".nii") \/ EndsWith(file.name, ".nii.gz"))
    THEN LoadFailed("ImageLoadError")
    ELSE IF ~file.readable THEN LoadFailed("ImageLoadError")
    ELSE IF ~file.parsable THEN LoadFailed("ImageLoadError")
    ELSE IF ~file.extractable THEN LoadFailed("ImageLoadError")
    ELSE IF file.affine.shape # <<4, 4>> THEN LoadFailed("MetadataError")
    ELSE IF Len(file.zooms) < 3 THEN LoadFailed("MetadataError")
    ELSE Loaded([data |-> file.data,
                 voxel_spacing |-> <<file.zooms[1], file.zooms[2], file.zooms[3]>>,
                 affine |-> file.affine])

load_nifti_image(file) ==
    IF ~file.exists THEN LoadFailed("ImageLoadError")
    ELSE IF ~(EndsWith(file.name, ".nii") \/ EndsWith(file.name, ".nii.gz"))
    THEN LoadFailed("ImageLoadError")
    ELSE IF ~file.readable THEN LoadFailed("ImageLoadError")
    ELSE IF ~file.parsable THEN LoadFailed("ImageLoadError")
    ELSE IF ~file.extractable THEN LoadFailed("ImageLoadError")
    ELSE IF ndim(file.data) # 3 THEN LoadFailed("MetadataError")
    ELSE IF file.affine.shape # <<4, 4>> THEN LoadFailed("MetadataError")
    ELSE IF Len(file.zooms) < 3 THEN LoadFailed("MetadataError")
    ELSE Loaded([data |-> file.data,
                 voxel_spacing |-> <<file.zooms[1], file.zooms[2], file.zooms[3]>>,
                 affine |-> file.affine])

(***************************************************************************)
(* errors.py: the exception classes                                        *)
(***************************************************************************)
ValidationErrors == {"ValidationError", "DimensionalityError", "DataQualityError", "MetadataError"}
PipelineErrors == ValidationErrors \cup {"ImageLoadError", "ProcessingError", "ConfigurationError"}
BuiltinExceptions == {"ValueError", "OSError", "FileNotFoundError", "RuntimeError"}

IsPipelineError(exc) == exc \in PipelineErrors
\* an except clause that lets the exceptions of the standard library through
IsException_PipelineOnly(exc) == exc \in PipelineErrors

IsException(exc) == exc \in PipelineErrors \cup BuiltinExceptions

(***************************************************************************)
(* Inputs                                                                  *)
(***************************************************************************)
\* the n-th coordinate at which a volume of the given shape may deviate from
\* its fill value: (n-1, 0, ..., 0)
Site(shape, n) == [a \in 1..Len(shape) |-> IF a = 1 THEN n - 1 ELSE 0]

\* the volume of the given shape that holds vals[n] at Site(shape, n)
Volume(shape, fill, vals) ==
    [shape |-> shape, fill |-> fill,
     spots |-> [c \in {Site(shape, n) : n \in 1..Len(vals)} |-> vals[c[1] + 1]]]

SpotValues == <<NaN, PosInf, NegInf, Fin(500)>>

\* the sequences of at most MaxSpots spot values, in the order of SpotValues
SpotLists ==
    {<<>>} \cup
    UNION {{[n \in 1..len |-> SpotValues[ix[n]]] :
               ix \in {f \in [1..len -> 1..Len(SpotValues)] :
                         \A n \in 1..(len - 1) : f[n] <= f[n + 1]}} :
           len \in 1..MaxSpots}

Shapes3 == {<<8, 8, 8>>, <<7, 8, 8>>, <<2049, 1, 1>>}
ShapesOther == {<<32, 32>>, <<8, 8, 8, 2>>}

Volumes ==
    {v \in
        {Volume(shape, Fin(0), vals) : shape \in Shapes3, vals \in SpotLists}
        \cup {Volume(shape, fill, <<>>) : shape \in Shapes3 \cup ShapesOther,
                                          fill \in {Fin(500), NaN}}
        \cup {Volume(shape, Fin(0), <<Fin(500)>>) : shape \in ShapesOther} :
     size(v) <= MaxVoxels}

GoodSpacing == Fin(1000)
SpacingBase == {GoodSpacing, Fin(0)}
SpacingSpecial ==
    {NaN, PosInf, NegInf, Fin(-1000), Fin(5), Fin(10), Fin(50), Fin(100),
     Fin(10000), Fin(20000), Fin(50000), Fin(50001)}

Spacings ==
    {<<x, y, z>> : x \in SpacingBase, y \in SpacingBase, z \in SpacingBase}
    \cup {<<GoodSpacing, s, GoodSpacing>> : s \in SpacingSpecial}
    \cup {<<Fin(50), Fin(0), Fin(20000)>>, <<Fin(50), GoodSpacing, Fin(20000)>>}

F(n) == Fin(n * BlockStep)      \* n tenths as an affine entry

Identity4 ==
    [shape |-> <<4, 4>>,
     m |-> << <<F(10), F(0), F(0), F(0)>>,
              <<F(0), F(10), F(0), F(0)>>,
              <<F(0), F(0), F(10), F(0)>>,
              <<F(0), F(0), F(0), F(10)>> >>]

Identity3 ==
    [shape |-> <<3, 3>>,
     m |-> << <<F(10), F(0), F(0)>>, <<F(0), F(10), F(0)>>, <<F(0), F(0), F(10)>> >>]

WithEntry(affine, i, j, x) == [affine EXCEPT !.m[i][j] = x]
ZeroRow(affine, i) == [affine EXCEPT !.m[i] = <<F(0), F(0), F(0), @[4]>>]

Affines ==
    {Identity4, Identity3,
     WithEntry(Identity4, 1, 1, NaN),                    \* affine[0, 0] = nan
     WithEntry(Identity4, 2, 4, PosInf),                 \* affine[1, 3] = inf
     WithEntry(Identity4, 4, 1, F(10)),                  \* bottom row [1, 0, 0, 1]
     WithEntry(Identity4, 4, 4, Fin(AffineOne + 50)),    \* bottom row [0, 0, 0, 1.000005]
     ZeroRow(Identity4, 1),                              \* affine[0, 0:3] = 0
     ZeroRow(WithEntry(Identity4, 4, 1, F(10)), 1),      \* both
     WithEntry(Identity4, 1, 1, F(-10)),                 \* affine[0, 0] = -1
     WithEntry(WithEntry(Identity4, 1, 1, F(-10)), 4, 2, F(5))}

Image(d, sp, af) == [data |-> d, voxel_spacing |-> sp, affine |-> af]

\* a clean input and two broken ones of each part
CoreVolumes ==
    {Volume(<<8, 8, 8>>, Fin(0), <<Fin(500)>>),
     Volume(<<8, 8, 8>>, Fin(0), <<NaN, PosInf>>),
     Volume(<<7, 8, 8>>, Fin(500), <<>>)}
CoreSpacings ==
    {<<GoodSpacing, GoodSpacing, GoodSpacing>>,
     <<GoodSpacing, Fin(0), GoodSpacing>>,
     <<Fin(50), GoodSpacing, Fin(20000)>>}
CoreAffines == {Identity4, Identity3, ZeroRow(WithEntry(Identity4, 4, 1, F(10)), 1)}

\* every volume, every spacing and every affine, each with every combination
\* of the core values of the other two parts
Images ==
    {Image(d, sp, af) : d \in Volumes, sp \in CoreSpacings, af \in CoreAffines}
    \cup {Image(d, sp, af) : d \in CoreVolumes, sp \in Spacings, af \in CoreAffines}
    \cup {Image(d, sp, af) : d \in CoreVolumes, sp \in CoreSpacings, af \in Affines}

\* the calls of the validator: validate_or_raise passes no keyword argument
Calls ==
    {[entry |-> "validate_or_raise", args |-> DefaultArgs],
     [entry |-> "validate_image_data",
      args |-> [DefaultArgs EXCEPT !.expected_value_range = <<Fin(0), Fin(100)>>]],
     [entry |-> "validate_image_data",
      args |-> [DefaultArgs EXCEPT !.min_dimension_size = 2, !.max_dimension_size = 40]]}

NoApiCalls == <<>>

(***************************************************************************)
(* Inputs of run_pipeline                                                  *)
(***************************************************************************)
Mm3 == 1000000       \* one mm^3 in the unit of volumes, 1e-6 mm^3

DefaultPercentile == 70
DefaultMinimumVolume == 100
DefaultSeed == 42

ProcessingConfig(percentile, min_volume, seed) ==
    [intensity_threshold_percentile |-> percentile,
     minimum_component_volume_mm3 |-> Fin(min_volume * Mm3),
     random_seed |-> seed]

PipelineConfig(processing, slice_views) ==
    [processing |-> processing, visualization |-> [generate_slice_views |-> slice_views]]

DefaultConfig ==
    PipelineConfig(ProcessingConfig(DefaultPercentile, DefaultMinimumVolume, DefaultSeed), TRUE)

Configs ==
    {PipelineConfig(ProcessingConfig(q, m, seed), views) :
        q \in {0, DefaultPercentile, 100}, m \in {0, DefaultMinimumVolume, 1000},
        seed \in {DefaultSeed, -1}, views \in BOOLEAN}

CoreConfigs == {DefaultConfig, PipelineConfig(ProcessingConfig(100, 0, DefaultSeed), TRUE)}

\* volumes that pass validation: one bright voxel, two bright voxels in
\* opposite corners, one dark voxel in a bright volume
BrightSpot == Volume(<<8, 8, 8>>, Fin(0), <<Fin(500)>>)
TwoSpots ==
    [shape |-> <<8, 8, 8>>, fill |-> Fin(0),
     spots |-> (<<0, 0, 0>> :> Fin(500)) @@ (<<7, 7, 7>> :> Fin(500))]
DarkSpot == Volume(<<8, 8, 8>>, Fin(500), <<Fin(0)>>)

NominalZooms(d) == [a \in 1..ndim(d) |-> GoodSpacing]

SourceFile(d, zooms, affine) ==
    [name |-> "scan.nii.gz", exists |-> TRUE, readable |-> TRUE, parsable |-> TRUE,
     extractable |-> TRUE, data |-> d, zooms |-> zooms, affine |-> affine]

CoreFiles == {SourceFile(d, NominalZooms(d), Identity4) : d \in {BrightSpot, TwoSpots}}

PipelineZooms ==
    {<<GoodSpacing, GoodSpacing, GoodSpacing>>, <<Fin(500), GoodSpacing, GoodSpacing>>,
     <<Fin(50), GoodSpacing, Fin(200)>>, <<GoodSpacing, Fin(0), GoodSpacing>>,
     <<NaN, GoodSpacing, GoodSpacing>>}

PipelineAffines ==
    {Identity4, Identity3, WithEntry(Identity4, 1, 1, F(-10)), WithEntry(Identity4, 4, 1, F(10))}

BrokenFiles ==
    LET good == SourceFile(BrightSpot, NominalZooms(BrightSpot), Identity4)
    IN  {[good EXCEPT !.exists = FALSE], [good EXCEPT !.name = "scan.img"],
         [good EXCEPT !.name = "scan.nii"], [good EXCEPT !.readable = FALSE],
         [good EXCEPT !.parsable = FALSE], [good EXCEPT !.extractable = FALSE]}

SourceFiles ==
    {SourceFile(d, NominalZooms(d), Identity4) : d \in Volumes \cup {TwoSpots, DarkSpot}}
    \cup {SourceFile(d, zooms, affine) :
             d \in {BrightSpot, DarkSpot}, zooms \in PipelineZooms, affine \in PipelineAffines}
    \cup BrokenFiles

\* what the file system does to the run: the output directory may be gone,
\* and the writing of one output file may fail
OutputFiles == {"metrics.json", "metrics_report.txt", "target_visualization.png"}

Disk(file, directory_exists, failing) ==
    [input |-> file, output_directory_exists |-> directory_exists,
     failing |-> failing, written |-> <<>>]

Runs ==
    {[config |-> c, filesystem |-> Disk(file, TRUE, failing)] :
        c \in Configs, file \in CoreFiles, failing \in {{}} \cup {{name} : name \in OutputFiles}}
    \cup {[config |-> c, filesystem |-> Disk(file, FALSE, {})] :
             c \in CoreConfigs, file \in CoreFiles}
    \cup {[config |-> c, filesystem |-> Disk(file, TRUE, {})] :
             c \in CoreConfigs, file \in SourceFiles}

EnvironmentVariables == {"OMP_NUM_THREADS", "MKL_NUM_THREADS", "OPENBLAS_NUM_THREADS"}

\* the interpreter's global state before the run
FreshGlobals == [environ |-> {}, random_seed |-> None, np_random_seed |-> None]

\* the state of a generator after seed(seed)
SeededWith(seed) == [seed |-> seed]

NoPipeline ==
    /\ config = None
    /\ filesystem = None
    /\ global_state = FreshGlobals
    /\ binary_mask = None
    /\ largest_component = None
    /\ target_region = None
    /\ metrics = None
    /\ steps = <<>>
    /\ exit_code = None
    /\ executions = <<>>

(***************************************************************************)
(* Spec: one call of validate_or_raise or validate_image_data              *)
(***************************************************************************)
Init ==
    /\ \E c \in Calls : entry = c.entry /\ args = c.args
    /\ image_data \in Images
    /\ report = NewReport
    /\ pc = "rank"
    /\ raised = "none"
    /\ api_calls = NoApiCalls
    /\ NoPipeline

Step(from, to, r) ==
    /\ pc = from
    /\ report' = r
    /\ pc' = to
    /\ UNCHANGED <<entry, image_data, args, raised, api_calls>>
    /\ UNCHANGED pipeline_vars

Rank ==
    Step("rank", IF RankOk(image_data) THEN "dims" ELSE "returned",
         CheckRank(image_data, report))
DimensionSizes == Step("dims", "nan", CheckDimensionSizes(image_data, args, report))
NaNValues == Step("nan", "inf", CheckNaN(image_data, report))
InfValues == Step("inf", "variance", CheckInf(image_data, report))
Variance == Step("variance", "range", CheckVariance(image_data, report))
ValueRange == Step("range", "spacing", CheckValueRange(image_data, args, report))
VoxelSpacing == Step("spacing", "affine", CheckSpacing(image_data, report))
AffineMatrix == Step("affine", "returned", CheckAffine(image_data, report))

\* validate_or_raise, after validate_image_data returned
Raise ==
    /\ pc = "returned"
    /\ entry = "validate_or_raise"
    /\ raised' = Classify(report)
    /\ pc' = "done"
    /\ UNCHANGED <<entry, image_data, args, report, api_calls>>
    /\ UNCHANGED pipeline_vars

Next ==
    \/ Rank
    \/ DimensionSizes
    \/ NaNValues
    \/ InfValues
    \/ Variance
    \/ ValueRange
    \/ VoxelSpacing
    \/ AffineMatrix
    \/ Raise

Spec == Init /\ [][Next]_vars

(***************************************************************************)
(* SpecReport: any sequence of calls of the ValidationReport interface     *)
(***************************************************************************)
ApiMessages == {"No NaN values detected", "Data contains 3 NaN values"}

InitReport ==
    /\ entry = "report_api"
    /\ args = DefaultArgs
    /\ image_data = [data |-> Volume(<<8, 8, 8>>, Fin(0), <<Fin(500)>>),
                     voxel_spacing |-> <<GoodSpacing, GoodSpacing, GoodSpacing>>,
                     affine |-> Identity4]
    /\ report = NewReport
    /\ pc = "api"
    /\ raised = "none"
    /\ api_calls = NoApiCalls
    /\ NoPipeline

ApiCall(kind, msg, r) ==
    /\ entry = "report_api"
    /\ Len(api_calls) < MaxApiCalls
    /\ report' = r
    /\ api_calls' = Append(api_calls, [kind |-> kind, message |-> msg])
    /\ UNCHANGED <<entry, image_data, args, pc, raised>>
    /\ UNCHANGED pipeline_vars

AddPass == \E msg \in ApiMessages : ApiCall("pass", msg, add_pass(report, msg))
AddWarning == \E msg \in ApiMessages : ApiCall("warning", msg, add_warning(report, msg))
AddError == \E msg \in ApiMessages : ApiCall("error", msg, add_error(report, msg))

NextReport == AddPass \/ AddWarning \/ AddError

SpecReport == InitReport /\ [][NextReport]_vars

(***************************************************************************)
(* SpecValidation: a report filled by its interface or by the validator    *)
(***************************************************************************)
InitValidation == Init \/ InitReport
NextValidation == Next \/ NextReport
SpecValidation == InitValidation /\ [][NextValidation]_vars

(***************************************************************************)
(* SpecPipeline: one call of run_pipeline (main.py)                        *)
(***************************************************************************)
InitPipeline ==
    /\ entry = "run_pipeline"
    /\ args = DefaultArgs
    /\ image_data = None
    /\ report = None
    /\ pc = "create_pipeline_logger"
    /\ raised = "none"
    /\ api_calls = NoApiCalls
    /\ \E run \in Runs : config = run.config /\ filesystem = run.filesystem
    /\ global_state = FreshGlobals
    /\ binary_mask = None
    /\ largest_component = None
    /\ target_region = None
    /\ metrics = None
    /\ steps = <<>>
    /\ exit_code = None
    /\ executions = <<>>

Started(name) == [name |-> name, status |-> "running"]
Ended(name, exc) == [name |-> name, status |-> IF exc = "none" THEN "done" ELSE "failed"]

\* the step `name` of run_pipeline: it runs at `from` and either raises exc,
\* which sends control to the except clauses, or returns ("none") and
\* control goes on to `to`.  The steps of the stages 2 to 4 run in the same
\* way when the stages are called without run_pipeline around them; an
\* exception then leaves the call.
PipelineStep(from, name, exc, to) ==
    /\ entry \in {"run_pipeline", "process_image_for_target_identification", "stages_2_to_4"}
    /\ pc = from
    /\ steps' = Append(steps, Ended(name, exc))
    /\ raised' = exc
    /\ pc' = IF exc = "none" THEN to ELSE IF entry = "run_pipeline" THEN "except" ELSE "raised"
    /\ UNCHANGED <<entry, args, api_calls, config, exit_code, executions>>

\* create_pipeline_logger opens the log file in the output directory, before
\* the try block is entered
CreateLogger ==
    /\ entry = "run_pipeline"
    /\ pc = "create_pipeline_logger"
    /\ IF filesystem.output_directory_exists
       THEN /\ filesystem' = [filesystem EXCEPT !.written = Append(@, "pipeline.log")]
            /\ steps' = Append(steps, Ended("create_pipeline_logger", "none"))
            /\ pc' = "log_configuration"
            /\ raised' = raised
       ELSE /\ filesystem' = filesystem
            /\ steps' = Append(steps, Ended("create_pipeline_logger", "FileNotFoundError"))
            /\ pc' = "propagated"
            /\ raised' = "FileNotFoundError"
    /\ UNCHANGED <<entry, image_data, args, report, api_calls, executions, config, global_state,
                   binary_mask, largest_component, target_region, metrics, exit_code>>

\* logger.log_configuration, get_environment_info
LogConfiguration ==
    /\ PipelineStep("log_configuration", "log_configuration", "none",
                    "ensure_deterministic_execution")
    /\ UNCHANGED <<image_data, report, filesystem, global_state, binary_mask,
                   largest_component, target_region, metrics>>

EnsureDeterministic ==
    /\ PipelineStep("ensure_deterministic_execution", "ensure_deterministic_execution",
                    "none", "set_seeds")
    /\ global_state' = [global_state EXCEPT !.environ = EnvironmentVariables]
    /\ UNCHANGED <<image_data, report, filesystem, binary_mask, largest_component,
                   target_region, metrics>>

\* np.random.seed accepts the seeds 0 .. 2**32 - 1; the seeds of the model
\* stay below 2**31
np_random_seed_raises(seed) == seed < 0

\* set_seeds: random.seed(seed), then np.random.seed(seed)
SetSeeds ==
    LET seed == config.processing.random_seed
        exc == IF np_random_seed_raises(seed) THEN "ValueError" ELSE "none"
    IN  /\ PipelineStep("set_seeds", "set_seeds", exc, "load")
        /\ global_state' =
              [global_state EXCEPT !.random_seed = SeededWith(seed),
                                   !.np_random_seed =
                                       IF exc = "none" THEN SeededWith(seed) ELSE @]
        /\ UNCHANGED <<image_data, report, filesystem, binary_mask, largest_component,
                       target_region, metrics>>

Load ==
    LET loaded == load_nifti_image(filesystem.input)
    IN  /\ PipelineStep("load", "load", loaded.exc, "validate")
        /\ image_data' = loaded.image
        /\ UNCHANGED <<report, filesystem, global_state, binary_mask, largest_component,
                       target_region, metrics>>

\* validate_or_raise(image_data)
Validate ==
    LET validated == validate_image_data(image_data, DefaultArgs)
    IN  /\ PipelineStep("validate", "validate", Classify(validated), "threshold")
        /\ report' = validated
        /\ UNCHANGED <<image_data, filesystem, global_state, binary_mask, largest_component,
                       target_region, metrics>>

\* process_image_for_target_identification: np.random.seed, then step 1
Threshold ==
    LET seed == config.processing.random_seed
        mask == apply_intensity_threshold(image_data.data,
                                          config.processing.intensity_threshold_percentile)
        exc == IF np_random_seed_raises(seed) THEN "ValueError"
               ELSE IF MaskSum(mask) = 0 THEN "ProcessingError" ELSE "none"
    IN  /\ PipelineStep("threshold", "threshold", exc, "extract")
        /\ global_state' =
              [global_state EXCEPT !.np_random_seed =
                                       IF exc = "ValueError" THEN @ ELSE SeededWith(seed)]
        /\ binary_mask' = IF exc = "ValueError" THEN binary_mask ELSE mask
        /\ UNCHANGED <<image_data, report, filesystem, largest_component, target_region,
                       metrics>>

\* process_image_for_target_identification, step 2
Extract ==
    LET component == extract_largest_connected_component(
                         binary_mask, config.processing.minimum_component_volume_mm3,
                         image_data.voxel_spacing)
        exc == IF component = None THEN "ProcessingError" ELSE "none"
    IN  /\ PipelineStep("extract", "extract", exc, "TargetRegion")
        /\ largest_component' = component
        /\ UNCHANGED <<image_data, report, filesystem, global_state, binary_mask,
                       target_region, metrics>>

\* process_image_for_target_identification, step 3, and its return
Target ==
    /\ PipelineStep("TargetRegion", "TargetRegion", "none",
                    IF entry = "process_image_for_target_identification" THEN "returned"
                    ELSE "metrics")
    /\ target_region' = TargetRegion(largest_component, 1, image_data.voxel_spacing)
    /\ UNCHANGED <<image_data, report, filesystem, global_state, binary_mask,
                   largest_component, metrics>>

\* the end of the running step of run_pipeline
EndStep(exc) == [steps EXCEPT ![Len(steps)] = Ended(@.name, exc)]

\* Stage 4 begins: compute_target_metrics
ComputeMetrics ==
    /\ entry = "run_pipeline"
    /\ pc = "metrics"
    /\ metrics' = compute_target_metrics(target_region)
    /\ steps' = Append(steps, Started("metrics"))
    /\ pc' = "write_metrics_json"
    /\ UNCHANGED <<entry, image_data, args, report, raised, api_calls, executions, config, filesystem,
                   global_state, binary_mask, largest_component, target_region, exit_code>>

\* open(path, 'w') and the write of one output file
WriteFile(from, name, exc, to, ends_step) ==
    /\ entry = "run_pipeline"
    /\ pc = from
    /\ IF name \in filesystem.failing
       THEN /\ filesystem' = filesystem
            /\ raised' = exc
            /\ steps' = EndStep(exc)
            /\ pc' = "except"
       ELSE /\ filesystem' = [filesystem EXCEPT !.written = Append(@, name)]
            /\ raised' = raised
            /\ steps' = IF ends_step THEN EndStep("none") ELSE steps
            /\ pc' = to
    /\ UNCHANGED <<entry, image_data, args, report, api_calls, executions, config, global_state,
                   binary_mask, largest_component, target_region, metrics, exit_code>>

\* a variant that opens the report file where metrics.json is due
WriteMetricsJson_ReportFirst ==
    WriteFile("write_metrics_json", "metrics_report.txt", "OSError", "write_metrics_report",
              FALSE)

WriteMetricsJson ==
    WriteFile("write_metrics_json", "metrics.json", "OSError", "write_metrics_report", FALSE)

\* the report is printed and written; Stage 4 ends
WriteMetricsReport ==
    WriteFile("write_metrics_report", "metrics_report.txt", "OSError",
              IF config.visualization.generate_slice_views THEN "visualization" ELSE "return",
              TRUE)

\* Stage 5: create_slice_visualization
Visualization ==
    /\ entry = "run_pipeline"
    /\ pc = "visualization"
    /\ IF "target_visualization.png" \in filesystem.failing
       THEN /\ filesystem' = filesystem
            /\ raised' = "RuntimeError"
            /\ steps' = Append(steps, Ended("visualization", "RuntimeError"))
            /\ pc' = "except"
       ELSE /\ filesystem' = [filesystem EXCEPT !.written = Append(@, "target_visualization.png")]
            /\ raised' = raised
            /\ steps' = Append(steps, Ended("visualization", "none"))
            /\ pc' = "return"
    /\ UNCHANGED <<entry, image_data, args, report, api_calls, executions, config, global_state,
                   binary_mask, largest_component, target_region, metrics, exit_code>>

\* return 0
ReturnSuccess ==
    /\ entry = "run_pipeline"
    /\ pc = "return"
    /\ exit_code' = 0
    /\ pc' = "exit"
    /\ UNCHANGED <<entry, image_data, args, report, raised, api_calls, executions, config, filesystem,
                   global_state, binary_mask, largest_component, target_region, metrics,
                   steps>>

\* except PipelineError / except Exception: return 1
HandleException ==
    /\ entry = "run_pipeline"
    /\ pc = "except"
    /\ IF IsPipelineError(raised) \/ IsException(raised)
       THEN exit_code' = 1 /\ pc' = "exit"
       ELSE exit_code' = exit_code /\ pc' = "propagated"
    /\ UNCHANGED <<entry, image_data, args, report, raised, api_calls, executions, config, filesystem,
                   global_state, binary_mask, largest_component, target_region, metrics,
                   steps>>

NextPipeline ==
    \/ CreateLogger
    \/ LogConfiguration
    \/ EnsureDeterministic
    \/ SetSeeds
    \/ Load
    \/ Validate
    \/ Threshold
    \/ Extract
    \/ Target
    \/ ComputeMetrics
    \/ WriteMetricsJson
    \/ WriteMetricsReport
    \/ Visualization
    \/ ReturnSuccess
    \/ HandleException

SpecPipeline == InitPipeline /\ [][NextPipeline]_vars

(***************************************************************************)
(* Inputs of the processing functions                                      *)
(*                                                                         *)
(* The spacings are multiples of 0.5 mm, so that the products of floats    *)
(* that give a voxel's volume and a component's volume are exact.          *)
(***************************************************************************)
ProcessorEntries ==
    {"apply_intensity_threshold", "extract_largest_connected_component", "TargetRegion",
     "process_image_for_target_identification", "stages_2_to_4"}

\* the array that holds f[c] at every coordinate c of the shape
Array(shape, f) == [shape |-> shape, fill |-> Fin(0), spots |-> f]

\* np.array([[[1, 2, 3], [4, 5, 6]], [[7, 8, 9], [10, 11, 12]]])
Ramp12 ==
    Array(<<2, 2, 3>>, [c \in Coords(<<2, 2, 3>>) |-> Fin(6 * c[1] + 3 * c[2] + c[3] + 1)])

SmallShape == <<2, 1, 2>>
SampleValues == {Fin(1), Fin(2), NaN, PosInf, NegInf}
SmallArrays == {Array(SmallShape, f) : f \in [Coords(SmallShape) -> SampleValues]}
Percentiles == {0, 25, 50, 70, 100}

\* arrays of finite samples of magnitude 1e308
HugeArrays == {Array(SmallShape, f) : f \in [Coords(SmallShape) -> {Huge(1), Huge(-1)}]}

\* volumes of 1e308 that pass validation: one and six voxels hold -1e308
HugeVolumes ==
    {Volume(<<8, 8, 8>>, Huge(1), <<Huge(-1)>>),
     Volume(<<8, 8, 8>>, Huge(1), <<Huge(-1), Huge(-1), Huge(-1), Huge(-1), Huge(-1), Huge(-1)>>)}

\* the mask of the given shape whose set entries are the coordinates in on
Mask(shape, on) == [shape |-> shape, v |-> [c \in Coords(shape) |-> IF c \in on THEN 1 ELSE 0]]

MaskShape == <<2, 2, 2>>
AllMasks == {Mask(MaskShape, on) : on \in SUBSET Coords(MaskShape)}

\* the solid boxes inside a 3 x 3 x 3 mask: mask[x0:x1+1, y0:y1+1, z0:z1+1] = 1
BoxShape == <<3, 3, 3>>
Box(lo, hi) == {c \in Coords(BoxShape) : \A a \in 1..3 : lo[a] <= c[a] /\ c[a] <= hi[a]}
Boxes ==
    {Mask(BoxShape, Box(lo, hi)) :
        lo \in Coords(BoxShape), hi \in Coords(BoxShape)} \ {Mask(BoxShape, {})}

UnitSpacing == <<Fin(1000), Fin(1000), Fin(1000)>>
ExtractSpacings == {UnitSpacing, <<Fin(1000), Fin(2000), Fin(3000)>>, <<Fin(500), Fin(1000), Fin(1000)>>}
RegionSpacings == ExtractSpacings \cup {<<Fin(1000), Fin(1500), Fin(2000)>>}

MinimumVolumes == {0, 1, 2, 3, 6, 12, 100}      \* in mm^3

DirectCall(name, a) == [entry |-> name, args |-> a, image_data |-> None, config |-> None]

ThresholdCalls ==
    {DirectCall("apply_intensity_threshold", [data |-> d, percentile |-> q]) :
        d \in SmallArrays \cup HugeArrays \cup {Ramp12}, q \in Percentiles}

ExtractCalls ==
    {DirectCall("extract_largest_connected_component",
                [binary_mask |-> m, min_volume_mm3 |-> Fin(v * Mm3), voxel_spacing |-> sp]) :
        m \in AllMasks, v \in MinimumVolumes, sp \in ExtractSpacings}

TargetRegionCalls ==
    {DirectCall("TargetRegion", [mask |-> m, label |-> 1, voxel_spacing |-> sp]) :
        m \in AllMasks \cup Boxes, sp \in RegionSpacings}

StagesCall(name, d, sp, af, processing) ==
    [entry |-> name, args |-> DefaultArgs, image_data |-> Image(d, sp, af),
     config |-> [processing |-> processing]]

\* process_image_for_target_identification is also given what the validator
\* would refuse
ProcessArrays ==
    {Ramp12} \cup {Array(SmallShape, f) : f \in [Coords(SmallShape) -> {Fin(1), Fin(2), NaN}]}
    \cup HugeArrays

ProcessCalls ==
    {StagesCall("process_image_for_target_identification", d, sp, Identity4,
                ProcessingConfig(q, v, DefaultSeed)) :
        d \in ProcessArrays, sp \in {UnitSpacing, <<Fin(500), Fin(1000), Fin(1000)>>},
        q \in {0, 50, 100}, v \in {0, 1, 2, 100}}
    \cup {StagesCall("process_image_for_target_identification", Ramp12, UnitSpacing, Identity4,
                     ProcessingConfig(q, v, seed)) :
             q \in {0, 50, 100}, v \in {0, 1, 100}, seed \in {7, -1}}

StagesCalls ==
    {StagesCall("stages_2_to_4", d, sp, af, ProcessingConfig(q, v, DefaultSeed)) :
        d \in {BrightSpot, TwoSpots, DarkSpot, Volume(<<8, 8, 8>>, Fin(0), <<NaN, Fin(500)>>)},
        sp \in {UnitSpacing, <<Fin(1000), Fin(0), Fin(1000)>>},
        af \in {Identity4, Identity3},
        q \in {DefaultPercentile, 100}, v \in {0, DefaultMinimumVolume, 1000}}
    \cup {StagesCall("stages_2_to_4", d, UnitSpacing, Identity4,
                     ProcessingConfig(q, DefaultMinimumVolume, DefaultSeed)) :
             d \in HugeVolumes, q \in {0, 1, DefaultPercentile}}

ProcessorCalls == ThresholdCalls \cup ExtractCalls \cup TargetRegionCalls \cup ProcessCalls \cup StagesCalls

\* where the function under call begins
FirstStep(name) ==
    IF name = "process_image_for_target_identification" THEN "threshold"
    ELSE IF name = "stages_2_to_4" THEN "validate"
    ELSE "call"

(***************************************************************************)
(* SpecProcessor: one call of a processing function, or of the stages 2 to *)
(* 4 of run_pipeline (validate_or_raise,                                   *)
(* process_image_for_target_identification, compute_target_metrics)        *)
(***************************************************************************)
InitProcessorWith(calls) ==
    /\ \E call \in calls :
        /\ entry = call.entry
        /\ args = call.args
        /\ image_data = call.image_data
        /\ config = call.config
        /\ pc = FirstStep(call.entry)
    /\ report = None
    /\ raised = "none"
    /\ api_calls = NoApiCalls
    /\ filesystem = None
    /\ global_state = FreshGlobals
    /\ binary_mask = None
    /\ largest_component = None
    /\ target_region = None
    /\ metrics = None
    /\ steps = <<>>
    /\ exit_code = None
    /\ executions = <<>>

InitProcessor == InitProcessorWith(ProcessorCalls)

\* apply_intensity_threshold(data, percentile)
CallThreshold ==
    /\ entry = "apply_intensity_threshold"
    /\ pc = "call"
    /\ binary_mask' = apply_intensity_threshold(args.data, args.percentile)
    /\ pc' = "returned"
    /\ UNCHANGED <<entry, image_data, args, report, raised, api_calls, config, filesystem,
                   global_state, largest_component, target_region, metrics, steps, exit_code,
                   executions>>

\* extract_largest_connected_component(binary_mask, min_volume_mm3, voxel_spacing)
CallExtract ==
    /\ entry = "extract_largest_connected_component"
    /\ pc = "call"
    /\ largest_component' =
          extract_largest_connected_component(args.binary_mask, args.min_volume_mm3,
                                              args.voxel_spacing)
    /\ pc' = "returned"
    /\ UNCHANGED <<entry, image_data, args, report, raised, api_calls, config, filesystem,
                   global_state, binary_mask, target_region, metrics, steps, exit_code,
                   executions>>

\* TargetRegion(mask, label, voxel_spacing): np.min of the coordinates of an
\* empty mask raises ValueError
Construct ==
    /\ entry = "TargetRegion"
    /\ pc = "call"
    /\ IF On(args.mask) = {}
       THEN /\ raised' = "ValueError"
            /\ target_region' = target_region
            /\ pc' = "raised"
       ELSE /\ raised' = raised
            /\ target_region' = TargetRegion(args.mask, args.label, args.voxel_spacing)
            /\ pc' = "metrics"
    /\ UNCHANGED <<entry, image_data, args, report, api_calls, config, filesystem,
                   global_state, binary_mask, largest_component, metrics, steps, exit_code,
                   executions>>

\* compute_target_metrics(target)
Metrics ==
    /\ entry \in {"TargetRegion", "stages_2_to_4"}
    /\ pc = "metrics"
    /\ metrics' = compute_target_metrics(target_region)
    /\ pc' = "returned"
    /\ UNCHANGED <<entry, image_data, args, report, raised, api_calls, config, filesystem,
                   global_state, binary_mask, largest_component, target_region, steps,
                   exit_code, executions>>

NextProcessor ==
    \/ CallThreshold
    \/ CallExtract
    \/ Construct
    \/ Metrics
    \/ Validate
    \/ Threshold
    \/ Extract
    \/ Target

SpecProcessor == InitProcessor /\ [][NextProcessor]_vars

(***************************************************************************)
(* SpecExecutions: calls of the processing functions one after another in  *)
(* one interpreter; what a call leaves in the interpreter's global state   *)
(* is there for the next call                                              *)
(***************************************************************************)
ExecutionCalls ==
    {DirectCall("apply_intensity_threshold", [data |-> d, percentile |-> 50]) :
        d \in {Ramp12, Array(SmallShape, [c \in Coords(SmallShape) |-> Fin(1 + c[1])])}}
    \cup {DirectCall("extract_largest_connected_component",
                     [binary_mask |-> Mask(MaskShape, {<<0, 0, 0>>, <<1, 1, 0>>, <<1, 1, 1>>}),
                      min_volume_mm3 |-> Fin(v * Mm3), voxel_spacing |-> UnitSpacing]) :
             v \in {1, 3}}
    \cup {DirectCall("TargetRegion", [mask |-> m, label |-> 1, voxel_spacing |-> UnitSpacing]) :
             m \in {Mask(MaskShape, {}), Mask(BoxShape, Box(<<1, 0, 0>>, <<2, 1, 0>>))}}
    \cup {StagesCall("process_image_for_target_identification", Ramp12, UnitSpacing, Identity4,
                     ProcessingConfig(50, v, seed)) : v \in {1, 100}, seed \in {DefaultSeed, 7}}
    \cup {StagesCall("stages_2_to_4", BrightSpot, sp, Identity4,
                     ProcessingConfig(100, 0, DefaultSeed)) :
             sp \in {UnitSpacing, <<Fin(1000), Fin(0), Fin(1000)>>}}

InitExecutions == InitProcessorWith(ExecutionCalls)

CurrentCall == [entry |-> entry, args |-> args, image_data |-> image_data, config |-> config]
CurrentOutcome ==
    [raised |-> raised, binary_mask |-> binary_mask, largest_component |-> largest_component,
     target_region |-> target_region, metrics |-> metrics]

\* the call under way has ended; the next call begins
CallAgain ==
    /\ entry \in ProcessorEntries
    /\ pc \in {"returned", "raised"}
    /\ Len(executions) < MaxExecutions
    /\ executions' = Append(executions, [call |-> CurrentCall, outcome |-> CurrentOutcome])
    /\ \E call \in ExecutionCalls :
        /\ entry' = call.entry
        /\ args' = call.args
        /\ image_data' = call.image_data
        /\ config' = call.config
        /\ pc' = FirstStep(call.entry)
    /\ report' = None
    /\ raised' = "none"
    /\ binary_mask' = None
    /\ largest_component' = None
    /\ target_region' = None
    /\ metrics' = None
    /\ steps' = <<>>
    /\ UNCHANGED <<api_calls, filesystem, global_state, exit_code>>

NextExecutions == NextProcessor \/ CallAgain

SpecExecutions == InitExecutions /\ [][NextExecutions]_vars

(***************************************************************************)
(* What an input violates, read off the input itself                       *)
(***************************************************************************)
Returned == pc \in {"returned", "done"}
Img == image_data

Rank3(img) == Len(img.data.shape) = 3

HasErrorWith(r, text) == \E n \in 1..Len(r.errors) : Contains(r.errors[n], text)
HasWarningWith(r, text) == \E n \in 1..Len(r.warnings) : Contains(r.warnings[n], text)

AxisOutOfBounds(img, a, i) ==
    img.data.shape[i] < a.min_dimension_size \/ img.data.shape[i] > a.max_dimension_size
DimsInBounds(img, a) == \A i \in 1..3 : ~AxisOutOfBounds(img, a, i)

NaNSamples(d) == SampleCount(d, {NaN})
InfSamples(d) == SampleCount(d, {PosInf}) + SampleCount(d, {NegInf})
LowVariance(d) == StdLess(np_std(d), VarianceBound)
CleanSamples(d) == NaNSamples(d) = 0 /\ InfSamples(d) = 0 /\ ~LowVariance(d)

\* non-positive, non-finite, below 0.01 mm or above 50.0 mm
SpacingInvalid(sp) ==
    \/ sp.k # "fin"
    \/ sp.v <= 0
    \/ sp.v < MIN_VOXEL_SPACING_MM
    \/ sp.v > MAX_VOXEL_SPACING_MM
SpacingValid(img) == \A i \in 1..3 : ~SpacingInvalid(img.voxel_spacing[i])

AffineWellFormed(img) == AffineShapeOk(img.affine) /\ AllFinite(img.affine)
AffineValid(img) ==
    /\ AffineWellFormed(img)
    /\ BottomRowClose(img.affine)
    /\ ~DetSingular(Det3(img.affine))

IsPrefix(s, t) == Len(s) <= Len(t) /\ SubSeq(t, 1, Len(s)) = s

NoErrorLevelViolation(img, a) ==
    /\ Rank3(img) /\ DimsInBounds(img, a) /\ CleanSamples(img.data)
    /\ SpacingValid(img) /\ AffineValid(img)

\* the exception the documented priority gives: dimensionality, then data
\* quality, then metadata, then the generic type
IntendedException(img, a) ==
    IF ~Rank3(img) THEN "DimensionalityError"
    ELSE IF ~DimsInBounds(img, a) THEN "DimensionalityError"
    ELSE IF ~CleanSamples(img.data) THEN "DataQualityError"
    ELSE IF ~SpacingValid(img) \/ ~AffineValid(img) THEN "MetadataError"
    ELSE "none"

(***************************************************************************)
(* C1: whenever the report has an error, validate_or_raise raises the one  *)
(* exception the fixed priority selects from the kinds of error present    *)
(* (dimensionality, then data quality, then metadata, then generic), and   *)
(* it raises nothing for a report without errors.                          *)
(***************************************************************************)
C1_ErrorPriority ==
    pc = "done" =>
        /\ is_valid(report) <=> raised = "none"
        /\ raised = IntendedException(Img, args)

(***************************************************************************)
(* C2: a volume whose rank is not 3 gets a report with exactly one error,  *)
(* the dimensionality error, no passed check and no warning; no later      *)
(* check runs; validate_or_raise raises DimensionalityError.               *)
(***************************************************************************)
C2_WrongRank ==
    ~Rank3(Img) =>
        /\ pc \in {"rank", "returned", "done"}
        /\ Returned =>
            /\ ~is_valid(report)
            /\ Len(report.errors) = 1
            /\ Contains(report.errors[1], "requires 3D volumetric data, got "
                                          \o ToString(ndim(Img.data)) \o "D")
            /\ report.checks_passed = <<>>
            /\ report.warnings = <<>>
        /\ pc = "done" => raised = "DimensionalityError"

C2_Witness == pc = "done" /\ ndim(Img.data) = 4 /\ raised = "DimensionalityError"

(***************************************************************************)
(* C3: the steps of a run of run_pipeline begin in the fixed order logger, *)
(* configuration log, ensure_deterministic_execution, set_seeds, load,     *)
(* validate, threshold, component extraction, TargetRegion, metrics,       *)
(* visualization; none begins twice; a step begins only when every earlier *)
(* step has ended without an exception; a finished step is never run       *)
(* again; and for a loaded volume with an error-level violation neither    *)
(* thresholding nor component extraction ever begins.                      *)
(***************************************************************************)
PipelineOrder ==
    <<"create_pipeline_logger", "log_configuration", "ensure_deterministic_execution",
      "set_seeds", "load", "validate", "threshold", "extract", "TargetRegion", "metrics",
      "visualization">>

StepNames(s) == [n \in 1..Len(s) |-> s[n].name]
StepDone(name) == \E n \in 1..Len(steps) : steps[n] = [name |-> name, status |-> "done"]
StepFailed(name) == \E n \in 1..Len(steps) : steps[n] = [name |-> name, status |-> "failed"]
StepBegun(name) == \E n \in 1..Len(steps) : steps[n].name = name

C3_OrderSoFar ==
    entry = "run_pipeline" =>
        /\ IsPrefix(StepNames(steps), PipelineOrder)
        /\ \A n \in 1..(Len(steps) - 1) : steps[n].status = "done"
        /\ (image_data # None /\ ~NoErrorLevelViolation(image_data, DefaultArgs)) =>
            /\ ~StepBegun("threshold") /\ ~StepBegun("extract") /\ ~StepBegun("TargetRegion")
            /\ binary_mask = None /\ largest_component = None /\ target_region = None

C3_NoRetry ==
    entry = "run_pipeline" =>
        /\ IsPrefix(StepNames(steps), StepNames(steps'))
        /\ Len(steps') <= Len(steps) + 1
        /\ \A n \in 1..Len(steps) : steps[n].status # "running" => steps'[n] = steps[n]

C3_StepOrder == [](C3_OrderSoFar) /\ [][C3_NoRetry]_vars

C3_Witness ==
    /\ entry = "run_pipeline" /\ pc = "exit"
    /\ image_data # None /\ LowVariance(image_data.data)
    /\ StepDone("load") /\ StepFailed("validate") /\ Len(steps) = 6

(***************************************************************************)
(* C4: when run_pipeline has returned, its value is 0 exactly when load,   *)
(* validate, the three processing steps, metrics and, if                   *)
(* generate_slice_views is set, visualization have all ended without an    *)
(* exception, and then the target region, the metrics and the output files *)
(* exist; the value is 1 otherwise.  An exception raised by one of these   *)
(* steps, a PipelineError or any other Exception, is caught: the run goes  *)
(* to the except clause and from there returns 1, and never leaves         *)
(* run_pipeline as an exception.                                           *)
(***************************************************************************)
ClaimedStages ==
    {"load", "validate", "threshold", "extract", "TargetRegion", "metrics"}
    \cup (IF config.visualization.generate_slice_views THEN {"visualization"} ELSE {})

Written(name) == \E n \in 1..Len(filesystem.written) : filesystem.written[n] = name

C4_Outcome ==
    entry = "run_pipeline" =>
        /\ pc # "exit" => exit_code = None
        /\ pc = "exit" =>
            /\ exit_code \in {0, 1}
            /\ exit_code = 0 <=> (\A name \in ClaimedStages : StepDone(name))
            /\ exit_code = 0 =>
                /\ target_region # None /\ metrics # None
                /\ Written("metrics.json") /\ Written("metrics_report.txt")
                /\ config.visualization.generate_slice_views =>
                       Written("target_visualization.png")
        /\ (\E name \in ClaimedStages : StepFailed(name)) =>
            /\ raised \in PipelineErrors \cup BuiltinExceptions
            /\ pc \in {"except", "exit"}
            /\ pc = "exit" => exit_code = 1

C4_Caught ==
    (entry = "run_pipeline" /\ pc = "except") => (pc' = "exit" /\ exit_code' = 1)

C4_ExitCode == [](C4_Outcome) /\ [][C4_Caught]_vars

C4_Witness ==
    /\ entry = "run_pipeline" /\ pc = "exit" /\ exit_code = 1
    /\ raised = "OSError" /\ StepFailed("metrics") /\ Written("metrics.json")

C6_MetadataError ==
    (pc = "done" /\ Rank3(Img) /\ DimsInBounds(Img, args) /\ CleanSamples(Img.data)
     /\ (~SpacingValid(Img) \/ ~AffineValid(Img)))
        => raised = "MetadataError"

(***************************************************************************)
(* C7: for an otherwise valid input with a finite 4x4 affine, a bottom-row *)
(* error or a singular error makes the report invalid and                  *)
(* validate_or_raise raises MetadataError; the two checks are independent: *)
(* an affine that violates both gets both errors.                          *)
(***************************************************************************)
C7_AffineErrors ==
    (Returned /\ Rank3(Img) /\ DimsInBounds(Img, args) /\ CleanSamples(Img.data)
     /\ SpacingValid(Img) /\ AffineWellFormed(Img)) =>
        /\ ~BottomRowClose(Img.affine) => HasErrorWith(report, "bottom row must be [0, 0, 0, 1]")
        /\ DetSingular(Det3(Img.affine)) => HasErrorWith(report, "submatrix is singular")
        /\ (HasErrorWith(report, "bottom row") \/ HasErrorWith(report, "singular")) =>
            /\ ~is_valid(report)
            /\ pc = "done" => raised = "MetadataError"

C7_Witness ==
    /\ pc = "done" /\ Rank3(Img) /\ DimsInBounds(Img, args) /\ CleanSamples(Img.data) /\ SpacingValid(Img)
    /\ Img.affine = ZeroRow(WithEntry(Identity4, 4, 1, F(10)), 1)
    /\ HasErrorWith(report, "bottom row") /\ HasErrorWith(report, "singular")
    /\ raised = "MetadataError"
(***************************************************************************)
(* C8: for a rank-3 volume the checks run in the order axis sizes, NaN,    *)
(* Infinity, variance, value range, voxel spacing, affine; what a check    *)
(* adds to the report does not depend on what the report holds already;    *)
(* the returned report holds the error of every check the input violates,  *)
(* in the order of the checks; and every check leaves its findings: one    *)
(* for the rank, one per axis size, one each for NaN, Infinity, variance   *)
(* and value range, one per spacing axis, and for the affine one when it   *)
(* is not 4x4, two when it has a non-finite entry, four otherwise and a    *)
(* fifth when the determinant is negative.                                 *)
(***************************************************************************)
CheckOrder == <<"rank", "dims", "nan", "inf", "variance", "range", "spacing", "affine", "returned">>

FindingsOf(stage, img, a) ==
    CASE stage = "rank" -> CheckRank(img, NewReport)
      [] stage = "dims" -> CheckDimensionSizes(img, a, NewReport)
      [] stage = "nan" -> CheckNaN(img, NewReport)
      [] stage = "inf" -> CheckInf(img, NewReport)
      [] stage = "variance" -> CheckVariance(img, NewReport)
      [] stage = "range" -> CheckValueRange(img, a, NewReport)
      [] stage = "spacing" -> CheckSpacing(img, NewReport)
      [] stage = "affine" -> CheckAffine(img, NewReport)

Concat(r, f) ==
    [checks_passed |-> r.checks_passed \o f.checks_passed,
     warnings |-> r.warnings \o f.warnings,
     errors |-> r.errors \o f.errors]

FindingCount(r) == Len(r.checks_passed) + Len(r.warnings) + Len(r.errors)

AffineFindingCount(affine) ==
    IF affine.shape # <<4, 4>> THEN 1
    ELSE IF ~AllFinite(affine) THEN 2
    ELSE IF Det3(affine) < 0 THEN 5
    ELSE 4

\* the check an error text comes from, as a position in CheckOrder
StageOfError(text) ==
    IF Contains(text, "requires 3D") THEN 1
    ELSE IF Contains(text, "Voxel spacing dimension") THEN 7
    ELSE IF Contains(text, "Affine") THEN 8
    ELSE IF Contains(text, "Dimension ") THEN 2
    ELSE IF Contains(text, "NaN values") THEN 3
    ELSE IF Contains(text, "infinite values") THEN 4
    ELSE IF Contains(text, "zero variance") THEN 5
    ELSE 0

C8_AllReported ==
    (Returned /\ Rank3(Img)) =>
        /\ \A i \in 1..3 : AxisOutOfBounds(Img, args, i) =>
               HasErrorWith(report, "Dimension " \o ToString(i - 1) \o " size")
        /\ NaNSamples(Img.data) > 0 => HasErrorWith(report, "NaN values")
        /\ InfSamples(Img.data) > 0 => HasErrorWith(report, "infinite values")
        /\ LowVariance(Img.data) => HasErrorWith(report, "zero variance")
        /\ \A i \in 1..3 : SpacingInvalid(Img.voxel_spacing[i]) =>
               HasErrorWith(report, "Voxel spacing dimension " \o ToString(i - 1))
        /\ Img.affine.shape # <<4, 4>> => HasErrorWith(report, "must be 4x4")
        /\ (Img.affine.shape = <<4, 4>> /\ ~AllFinite(Img.affine)) =>
               HasErrorWith(report, "non-finite values")
        /\ (AffineWellFormed(Img) /\ ~BottomRowClose(Img.affine)) =>
               HasErrorWith(report, "bottom row")
        /\ (AffineWellFormed(Img) /\ DetSingular(Det3(Img.affine))) =>
               HasErrorWith(report, "singular")
        /\ FindingCount(report) = 11 + AffineFindingCount(Img.affine)
        /\ \A m, n \in 1..Len(report.errors) :
               m < n => StageOfError(report.errors[m]) <= StageOfError(report.errors[n])
        /\ \A n \in 1..Len(report.errors) : StageOfError(report.errors[n]) > 1

C8_StepInOrder ==
    (Rank3(Img) /\ pc \in {"rank", "dims", "nan", "inf", "variance", "range", "spacing", "affine"}) =>
        /\ \E n \in 1..(Len(CheckOrder) - 1) : pc = CheckOrder[n] /\ pc' = CheckOrder[n + 1]
        /\ report' = Concat(report, FindingsOf(pc, Img, args))

C8_ChecksAccumulate == [](C8_AllReported) /\ [][C8_StepInOrder]_vars

C8_Witness ==
    /\ Returned /\ Rank3(Img)
    /\ HasErrorWith(report, "NaN values") /\ HasErrorWith(report, "infinite values")
    /\ HasErrorWith(report, "Voxel spacing dimension 1")
    /\ HasErrorWith(report, "bottom row") /\ HasErrorWith(report, "singular")

(***************************************************************************)
(* C9: a rank-3 volume with exactly k > 0 NaN samples gets an invalid      *)
(* report with the error "Data contains k NaN values"; one with exactly    *)
(* m > 0 samples that are +Infinity or -Infinity gets an invalid report    *)
(* with the error "Data contains m infinite values".                       *)
(***************************************************************************)
C9_ExactCounts ==
    (Returned /\ Rank3(Img)) =>
        /\ NaNSamples(Img.data) > 0 =>
            /\ ~is_valid(report)
            /\ HasErrorWith(report, "Data contains " \o ToString(NaNSamples(Img.data))
                                     \o " NaN values")
        /\ InfSamples(Img.data) > 0 =>
            /\ ~is_valid(report)
            /\ HasErrorWith(report, "Data contains " \o ToString(InfSamples(Img.data))
                                     \o " infinite values")

C9_Witness ==
    /\ Returned /\ Rank3(Img)
    /\ SampleCount(Img.data, {PosInf}) = 1 /\ SampleCount(Img.data, {NegInf}) = 1
    /\ HasErrorWith(report, "Data contains 2 infinite values")

(***************************************************************************)
(* C10: the three sequences of a ValidationReport are the messages of the  *)
(* add_pass, add_warning and add_error calls made on it, in call order;    *)
(* is_valid() holds exactly when add_error was never called; no step       *)
(* shortens or reorders a sequence; add_pass and add_warning leave         *)
(* is_valid() as it was; and an input of validate_image_data that violates *)
(* no error-level check gets a valid report whatever warnings it earns.    *)
(***************************************************************************)
RECURSIVE MessagesOf(_, _)
MessagesOf(log, kind) ==
    IF log = <<>> THEN <<>>
    ELSE LET rest == MessagesOf(Tail(log), kind)
         IN  IF Head(log).kind = kind THEN <<Head(log).message>> \o rest ELSE rest

C10_ReportState ==
    /\ entry = "report_api" =>
        /\ report.checks_passed = MessagesOf(api_calls, "pass")
        /\ report.warnings = MessagesOf(api_calls, "warning")
        /\ report.errors = MessagesOf(api_calls, "error")
        /\ is_valid(report) <=> (\A n \in 1..Len(api_calls) : api_calls[n].kind # "error")
    /\ (entry # "report_api" /\ Returned /\ NoErrorLevelViolation(Img, args)) =>
        is_valid(report)

C10_ReportStep ==
    /\ IsPrefix(report.checks_passed, report'.checks_passed)
    /\ IsPrefix(report.warnings, report'.warnings)
    /\ IsPrefix(report.errors, report'.errors)
    /\ (entry = "report_api" /\ Len(api_calls') = Len(api_calls) + 1
        /\ api_calls'[Len(api_calls')].kind \in {"pass", "warning"}) =>
            (is_valid(report') <=> is_valid(report))

C10_ReportValidity == [](C10_ReportState) /\ [][C10_ReportStep]_vars

C10_Witness ==
    /\ entry = "report_api" /\ Len(api_calls) = MaxApiCalls
    /\ Len(report.warnings) >= 2 /\ Len(report.checks_passed) >= 1 /\ is_valid(report)

C10_WitnessWarningsOnly ==
    /\ entry # "report_api" /\ Returned /\ is_valid(report)
    /\ HasWarningWith(report, "Unusual voxel spacing")
    /\ HasWarningWith(report, "outside expected range")
    /\ HasWarningWith(report, "negative determinant")

(***************************************************************************)
(* C11: an otherwise valid input whose finite 4x4 affine has a negative    *)
(* determinant of its top-left 3x3 submatrix passes validation: the report *)
(* holds the reflection warning and no error, it is valid, and             *)
(* validate_or_raise raises nothing.                                       *)
(***************************************************************************)
C11_ReflectionPasses ==
    (Returned /\ Rank3(Img) /\ DimsInBounds(Img, args) /\ CleanSamples(Img.data)
     /\ SpacingValid(Img) /\ AffineValid(Img) /\ Det3(Img.affine) < 0) =>
        /\ HasWarningWith(report, "negative determinant")
        /\ HasWarningWith(report, "reflection")
        /\ report.errors = <<>>
        /\ is_valid(report)
        /\ pc = "done" => raised = "none"

C11_Witness ==
    /\ entry = "validate_or_raise" /\ pc = "done"
    /\ Rank3(Img) /\ DimsInBounds(Img, args) /\ CleanSamples(Img.data) /\ SpacingValid(Img)
    /\ Img.affine = WithEntry(Identity4, 1, 1, F(-10))
    /\ HasWarningWith(report, "negative determinant (-1.0000)")
    /\ report.errors = <<>>
    /\ raised = "none"

(***************************************************************************)
(* The calls of the processing functions, read off the state               *)
(***************************************************************************)
Thresholded ==
    \/ entry = "apply_intensity_threshold" /\ pc = "returned"
    \/ /\ entry \in {"process_image_for_target_identification", "stages_2_to_4"}
       /\ \E n \in 1..Len(steps) : steps[n].name = "threshold" /\ raised # "ValueError"

\* the array and the percentile that were thresholded
ThresholdData == IF entry = "apply_intensity_threshold" THEN args.data ELSE image_data.data
ThresholdPercentile ==
    IF entry = "apply_intensity_threshold" THEN args.percentile
    ELSE config.processing.intensity_threshold_percentile

ForegroundCount(mask) == Cardinality({c \in DOMAIN mask.v : mask.v[c] = 1})

(***************************************************************************)
(* C12: the mask apply_intensity_threshold returns has the shape of the    *)
(* data and entries 0 and 1 only; an entry is 1 exactly when the voxel's   *)
(* intensity is >= the value at the percentile over all samples.  For      *)
(* finite data whose differences are finite too, the voxels of the top     *)
(* ranks are foreground, percentile 0 selects every voxel and percentile   *)
(* 100 the voxels that hold the maximum; the 12 distinct values 1..12 at   *)
(* percentile 50 give 6.                                                   *)
(***************************************************************************)
C12_ThresholdMask ==
    Thresholded =>
        LET d == ThresholdData
            q == ThresholdPercentile
            value == np_percentile(d, q)
            finite == \A x \in PresentValues(d) : x.k = "fin"
        IN  /\ binary_mask.shape = d.shape
            /\ DOMAIN binary_mask.v = Coords(d.shape)
            /\ \A c \in Coords(d.shape) :
                /\ binary_mask.v[c] \in {0, 1}
                /\ binary_mask.v[c] = 1 <=> FLe(value, InPercentileUnit(ValueAt(d, c)))
            /\ finite =>
                /\ ForegroundCount(binary_mask) >= size(d) - CeilDiv(q * (size(d) - 1), PercentScale)
                /\ q = 0 => ForegroundCount(binary_mask) = size(d)
                /\ q = PercentScale =>
                      \A c \in Coords(d.shape) : binary_mask.v[c] = 1 <=> ValueAt(d, c) = np_max(d)
            /\ (d = Ramp12 /\ q = 50) => ForegroundCount(binary_mask) = 6

C12_Witness ==
    /\ entry = "apply_intensity_threshold" /\ pc = "returned"
    /\ args.data = Ramp12 /\ args.percentile = 50
    /\ ForegroundCount(binary_mask) = 6
    /\ \A c \in Coords(<<2, 2, 3>>) : binary_mask.v[c] = 1 <=> c[1] = 1

\* the selection of a component ended; Selected is what it returned
Extracted ==
    \/ entry = "extract_largest_connected_component" /\ pc = "returned"
    \/ /\ entry \in {"process_image_for_target_identification", "stages_2_to_4"}
       /\ \E n \in 1..Len(steps) : steps[n].name = "extract"
Selected == largest_component

\* the mask, the minimum volume and the spacing the selection was given
ExtractMask ==
    IF entry = "extract_largest_connected_component" THEN args.binary_mask ELSE binary_mask
ExtractMinimum ==
    IF entry = "extract_largest_connected_component" THEN args.min_volume_mm3
    ELSE config.processing.minimum_component_volume_mm3
ExtractSpacing ==
    IF entry = "extract_largest_connected_component" THEN args.voxel_spacing
    ELSE image_data.voxel_spacing

Foreground(mask) == {c \in DOMAIN mask.v : mask.v[c] # 0}

\* two voxels share a face: their indices differ by one on exactly one axis
FaceAdjacent(c, e) ==
    \E a \in 1..3 :
        /\ c[a] - e[a] \in {-1, 1}
        /\ \A b \in (1..3) \ {a} : c[b] = e[b]

\* they touch, along a face, an edge or at a corner
Touching(c, e) == c # e /\ \A a \in 1..3 : c[a] - e[a] \in {-1, 0, 1}

\* the voxels of S joined to those of `reached` by a path of face-adjacent
\* voxels of S
RECURSIVE Joined(_, _, _)
Joined(S, reached, last) ==
    LET more == {c \in S \ reached : \E e \in last : FaceAdjacent(c, e)}
    IN  IF more = {} THEN reached ELSE Joined(S, reached \cup more, more)

(***************************************************************************)
(* C13: the mask extract_largest_connected_component returns is one        *)
(* connected component of its input under 6-connectivity: it is not empty, *)
(* all its voxels are joined to one another by paths of face-adjacent      *)
(* voxels of it, every foreground voxel of the input that shares a face    *)
(* with one of its voxels belongs to it, it holds no background voxel of   *)
(* the input, and a foreground voxel that is not joined to it by faces is  *)
(* left out even where it touches it along an edge or at a corner.         *)
(***************************************************************************)
C13_OneComponent ==
    (Extracted /\ Selected # None) =>
        LET input == Foreground(ExtractMask)
            result == Foreground(Selected)
            first == CHOOSE c \in result : TRUE
        IN  /\ Selected.shape = ExtractMask.shape
            /\ DOMAIN Selected.v = DOMAIN ExtractMask.v
            /\ \A c \in DOMAIN Selected.v : Selected.v[c] \in {0, 1}
            /\ result # {}
            /\ result \subseteq input
            /\ Joined(result, {first}, {first}) = result
            /\ \A e \in input \ result : \A c \in result : ~FaceAdjacent(c, e)
            /\ Joined(input, {first}, {first}) = result

\* the selected pair of voxels touches a third foreground voxel along an edge
C13_Witness ==
    /\ entry = "extract_largest_connected_component" /\ pc = "returned"
    /\ Foreground(args.binary_mask) = {<<0, 0, 0>>, <<1, 1, 0>>, <<1, 1, 1>>}
    /\ Selected # None
    /\ Foreground(Selected) = {<<1, 1, 0>>, <<1, 1, 1>>}
    /\ Touching(<<0, 0, 0>>, <<1, 1, 0>>) /\ ~FaceAdjacent(<<0, 0, 0>>, <<1, 1, 0>>)

\* the connected components of the foreground S under 6-connectivity
RECURSIVE ComponentsOf(_)
ComponentsOf(S) ==
    IF S = {} THEN {}
    ELSE LET c == CHOOSE c \in S : TRUE
             component == Joined(S, {c}, {c})
         IN  {component} \cup ComponentsOf(S \ component)

\* voxel count times spacing_x * spacing_y * spacing_z, in 1e-6 mm^3
VolumeOf(component, spacing) == Cardinality(component) * voxel_volume_mm3(spacing)

\* the components whose volume is at least the minimum
Eligible(mask, minimum, spacing) ==
    {k \in ComponentsOf(Foreground(mask)) : VolumeOf(k, spacing) >= minimum.v}

(***************************************************************************)
(* C14: extract_largest_connected_component returns None exactly when no   *)
(* component of the mask has a volume (voxel count times the product of    *)
(* the three spacings) of at least min_volume_mm3, a mask without          *)
(* foreground included; otherwise it returns a mask whose set entries are  *)
(* the voxels of one component of the greatest volume among those of at    *)
(* least min_volume_mm3.  A volume equal to min_volume_mm3 is accepted.    *)
(***************************************************************************)
C14_LargestEligible ==
    Extracted =>
        LET eligible == Eligible(ExtractMask, ExtractMinimum, ExtractSpacing)
        IN  /\ Selected = None <=> eligible = {}
            /\ Selected # None =>
                /\ Foreground(Selected) \in eligible
                /\ \A c \in DOMAIN Selected.v : Selected.v[c] = 1 <=> c \in Foreground(Selected)
                /\ \A k \in eligible :
                      VolumeOf(k, ExtractSpacing) <= VolumeOf(Foreground(Selected), ExtractSpacing)

\* a component of exactly the minimum volume is selected, a smaller one is not
C14_Witness ==
    /\ entry = "extract_largest_connected_component" /\ pc = "returned"
    /\ Foreground(args.binary_mask) = {<<0, 0, 0>>, <<1, 1, 0>>, <<1, 1, 1>>}
    /\ args.voxel_spacing = <<Fin(1000), Fin(2000), Fin(3000)>>
    /\ args.min_volume_mm3 = Fin(12 * Mm3)
    /\ Selected # None
    /\ Foreground(Selected) = {<<1, 1, 0>>, <<1, 1, 1>>}
    /\ VolumeOf(Foreground(Selected), args.voxel_spacing) = 12 * Mm3

\* what the selection returns for the same mask and spacing at another minimum
SelectedAt(minimum) ==
    extract_largest_connected_component(ExtractMask, minimum, ExtractSpacing)

SelectedVolume(selection) == VolumeOf(Foreground(selection), ExtractSpacing)

\* lower <= higher are two minimum volumes, at_lower and at_higher what is
\* selected at them
Monotonic(lower, at_lower, higher, at_higher) ==
    at_higher # None =>
        /\ at_lower # None
        /\ SelectedVolume(at_lower) >= SelectedVolume(at_higher)
        /\ SelectedVolume(at_higher) >= lower.v
        /\ SelectedVolume(at_higher) >= higher.v

(***************************************************************************)
(* C15: for a fixed mask and spacing the selection is monotonic in         *)
(* min_volume_mm3: with m1 <= m2, whenever a component is selected at m2   *)
(* one is selected at m1 too, of a volume at least as large, and the       *)
(* component selected at m2 is not one that m1 rejects as too small.       *)
(***************************************************************************)
C15_MonotonicInMinimum ==
    Extracted =>
        \A v \in MinimumVolumes :
            LET other == Fin(v * Mm3)
            IN  /\ other.v >= ExtractMinimum.v =>
                    Monotonic(ExtractMinimum, Selected, other, SelectedAt(other))
                /\ other.v <= ExtractMinimum.v =>
                    Monotonic(other, SelectedAt(other), ExtractMinimum, Selected)

\* the pair of voxels is selected at 1 and at 2 mm^3, nothing at 3 mm^3
C15_Witness ==
    /\ entry = "extract_largest_connected_component" /\ pc = "returned"
    /\ Foreground(args.binary_mask) = {<<0, 0, 0>>, <<1, 1, 0>>, <<1, 1, 1>>}
    /\ args.voxel_spacing = UnitSpacing
    /\ args.min_volume_mm3 = Fin(2 * Mm3)
    /\ Selected # None
    /\ Foreground(Selected) = {<<1, 1, 0>>, <<1, 1, 1>>}
    /\ SelectedAt(Fin(1 * Mm3)) = Selected
    /\ SelectedAt(Fin(3 * Mm3)) = None

\* process_image_for_target_identification was called and has ended
ProcessEnded ==
    /\ entry \in {"process_image_for_target_identification", "stages_2_to_4"}
    /\ pc \in {"returned", "raised", "metrics"}
    /\ \E n \in 1..Len(steps) : steps[n].name = "threshold"

StepTaken(name) == \E n \in 1..Len(steps) : steps[n].name = name

(***************************************************************************)
(* C16: process_image_for_target_identification returns a TargetRegion or  *)
(* raises ProcessingError, and nothing else.  A thresholded mask without   *)
(* foreground raises ProcessingError before the extraction of a component  *)
(* is attempted; a mask none of whose components clears the minimum volume *)
(* raises ProcessingError and no TargetRegion is constructed.              *)
(***************************************************************************)
C16_TargetOrProcessingError ==
    ProcessEnded =>
        /\ \/ raised = "none" /\ target_region # None
           \/ raised = "ProcessingError" /\ target_region = None
        /\ (binary_mask # None /\ Foreground(binary_mask) = {}) =>
            /\ raised = "ProcessingError"
            /\ ~StepTaken("extract")
            /\ largest_component = None
        /\ (StepTaken("extract") /\ largest_component = None) =>
            /\ raised = "ProcessingError"
            /\ ~StepTaken("TargetRegion")
            /\ target_region = None

\* a TargetRegion was constructed; RegionMask and RegionSpacing are what it
\* was constructed from
Constructed ==
    /\ entry \in {"TargetRegion", "process_image_for_target_identification", "stages_2_to_4"}
    /\ target_region # None
RegionMask == IF entry = "TargetRegion" THEN args.mask ELSE largest_component
RegionSpacing == IF entry = "TargetRegion" THEN args.voxel_spacing ELSE image_data.voxel_spacing

\* sx * sy * sz in 1e-6 mm^3, the spacings being multiples of 0.01 mm
SpacingProduct(spacing) ==
    (spacing[1].v \div 10) * (spacing[2].v \div 10) * (spacing[3].v \div 10)

LowestIndex(S, a) == CHOOSE x \in {c[a] : c \in S} : \A c \in S : x <= c[a]
HighestIndex(S, a) == CHOOSE x \in {c[a] : c \in S} : \A c \in S : c[a] <= x

\* S is a solid box: every coordinate between its lowest and highest indices
IsSolidBox(S, shape) ==
    S = {c \in Coords(shape) :
            \A a \in 1..3 : LowestIndex(S, a) <= c[a] /\ c[a] <= HighestIndex(S, a)}

(***************************************************************************)
(* C17: a TargetRegion made from a non-empty binary mask and the spacing   *)
(* (sx, sy, sz) has voxel_count = the number of set elements, volume_mm3 = *)
(* voxel_count * sx * sy * sz, and on every axis the bounding box          *)
(* (min index, max index) over the set elements, both inclusive.  For a    *)
(* solid w x h x d box at offset (x0, y0, z0) the count is w * h * d and   *)
(* the bounding box ([x0, x0+w-1], [y0, y0+h-1], [z0, z0+d-1]).            *)
(***************************************************************************)
C17_RegionGeometry ==
    Constructed =>
        LET set == Foreground(RegionMask)
            t == target_region
        IN  /\ set # {}
            /\ t.voxel_count = Cardinality(set)
            /\ t.volume_mm3 = Fin(Cardinality(set) * SpacingProduct(RegionSpacing))
            /\ \A a \in 1..3 :
                /\ t.bounding_box[a] = <<LowestIndex(set, a), HighestIndex(set, a)>>
                /\ \A c \in set : t.bounding_box[a][1] <= c[a] /\ c[a] <= t.bounding_box[a][2]
                /\ \E c \in set : c[a] = t.bounding_box[a][1]
                /\ \E c \in set : c[a] = t.bounding_box[a][2]
            /\ IsSolidBox(set, RegionMask.shape) =>
                  t.voxel_count =
                      (t.bounding_box[1][2] - t.bounding_box[1][1] + 1)
                    * (t.bounding_box[2][2] - t.bounding_box[2][1] + 1)
                    * (t.bounding_box[3][2] - t.bounding_box[3][1] + 1)

\* the 2 x 2 x 1 box at offset (1, 0, 0) with the spacing (1.0, 2.0, 3.0)
C17_Witness ==
    /\ entry = "TargetRegion" /\ pc = "returned"
    /\ args.mask = Mask(BoxShape, Box(<<1, 0, 0>>, <<2, 1, 0>>))
    /\ args.voxel_spacing = <<Fin(1000), Fin(2000), Fin(3000)>>
    /\ target_region.voxel_count = 4
    /\ target_region.volume_mm3 = Fin(24 * Mm3)
    /\ target_region.bounding_box = << <<1, 2>>, <<0, 1>>, <<0, 0>> >>

\* the sum of the a-th index over the set elements
IndexSum(S, a) == SumOver(S, [c \in S |-> c[a]])

(***************************************************************************)
(* C18: the voxel centroid of a TargetRegion of a non-empty mask is, on    *)
(* every axis, the arithmetic mean of the coordinates of the set elements, *)
(* not rounded to an index; it lies between the minimum and the maximum of *)
(* the bounding box on that axis; the physical centroid is the voxel       *)
(* centroid times the spacing of the axis.  (A mean is the fraction        *)
(* num / den.)                                                             *)
(***************************************************************************)
C18_Centroid ==
    Constructed =>
        LET set == Foreground(RegionMask)
            t == target_region
        IN  \A a \in 1..3 :
                LET voxel == t.centroid_voxels[a]
                    physical == t.centroid_physical[a]
                IN  /\ voxel.den > 0 /\ physical.den > 0
                    /\ voxel.num * Cardinality(set) = IndexSum(set, a) * voxel.den
                    /\ t.bounding_box[a][1] * voxel.den <= voxel.num
                    /\ voxel.num <= t.bounding_box[a][2] * voxel.den
                    /\ physical.num * voxel.den
                          = voxel.num * RegionSpacing[a].v * physical.den

\* three voxels in an L: the centroid (1/3, 1/3, 0) is no index, and with the
\* spacing (1.0, 2.0, 3.0) the physical centroid is (1/3 mm, 2/3 mm, 0)
C18_Witness ==
    /\ entry = "TargetRegion" /\ pc = "returned"
    /\ Foreground(args.mask) = {<<0, 0, 0>>, <<1, 0, 0>>, <<0, 1, 0>>}
    /\ args.voxel_spacing = <<Fin(1000), Fin(2000), Fin(3000)>>
    /\ LET voxel == target_region.centroid_voxels
           physical == target_region.centroid_physical
       IN  /\ 3 * voxel[1].num = voxel[1].den /\ 3 * voxel[2].num = voxel[2].den
           /\ voxel[3].num = 0
           /\ 3 * physical[1].num = 1000 * physical[1].den
           /\ 3 * physical[2].num = 2000 * physical[2].den

\* the keys of the mapping compute_target_metrics returns
MetricKeys ==
    {"volume_mm3", "voxel_count",
     "centroid_voxel_x", "centroid_voxel_y", "centroid_voxel_z",
     "centroid_physical_x_mm", "centroid_physical_y_mm", "centroid_physical_z_mm",
     "bbox_x_min", "bbox_x_max", "bbox_y_min", "bbox_y_max", "bbox_z_min", "bbox_z_max",
     "bbox_width_voxels", "bbox_height_voxels", "bbox_depth_voxels",
     "bbox_width_mm", "bbox_height_mm", "bbox_depth_mm",
     "voxel_spacing_x_mm", "voxel_spacing_y_mm", "voxel_spacing_z_mm"}

MetricsComputed ==
    /\ entry \in {"TargetRegion", "stages_2_to_4", "run_pipeline"}
    /\ metrics # None

(***************************************************************************)
(* C19: compute_target_metrics returns a mapping with exactly the 23 keys  *)
(* of MetricKeys.  Volume, voxel count, both centroids, the bounding box's *)
(* minima and maxima and the spacing are the TargetRegion's own values;    *)
(* every extent in voxels is max - min + 1 of its axis of the bounding     *)
(* box, and every extent in mm is that extent times the axis's spacing.    *)
(***************************************************************************)
C19_MetricsMapping ==
    MetricsComputed =>
        LET t == target_region
            m == metrics
            box == t.bounding_box
        IN  /\ DOMAIN m = MetricKeys
            /\ Cardinality(DOMAIN m) = 23
            /\ m.volume_mm3 = t.volume_mm3
            /\ m.voxel_count = t.voxel_count
            /\ <<m.centroid_voxel_x, m.centroid_voxel_y, m.centroid_voxel_z>> = t.centroid_voxels
            /\ <<m.centroid_physical_x_mm, m.centroid_physical_y_mm, m.centroid_physical_z_mm>>
                  = t.centroid_physical
            /\ << <<m.bbox_x_min, m.bbox_x_max>>, <<m.bbox_y_min, m.bbox_y_max>>,
                  <<m.bbox_z_min, m.bbox_z_max>> >> = box
            /\ <<m.voxel_spacing_x_mm, m.voxel_spacing_y_mm, m.voxel_spacing_z_mm>>
                  = t.voxel_spacing
            /\ m.bbox_width_voxels = box[1][2] - box[1][1] + 1
            /\ m.bbox_height_voxels = box[2][2] - box[2][1] + 1
            /\ m.bbox_depth_voxels = box[3][2] - box[3][1] + 1
            /\ m.bbox_width_mm = Fin(m.bbox_width_voxels * t.voxel_spacing[1].v)
            /\ m.bbox_height_mm = Fin(m.bbox_height_voxels * t.voxel_spacing[2].v)
            /\ m.bbox_depth_mm = Fin(m.bbox_depth_voxels * t.voxel_spacing[3].v)

\* the 2 x 2 x 1 box at offset (1, 0, 0) with the spacing (1.0, 1.5, 2.0):
\* 2 voxels = 2.0 mm wide, 2 voxels = 3.0 mm high, 1 voxel = 2.0 mm deep
C19_Witness ==
    /\ entry = "TargetRegion" /\ pc = "returned"
    /\ args.mask = Mask(BoxShape, Box(<<1, 0, 0>>, <<2, 1, 0>>))
    /\ args.voxel_spacing = <<Fin(1000), Fin(1500), Fin(2000)>>
    /\ metrics.bbox_x_min = 1 /\ metrics.bbox_x_max = 2
    /\ metrics.bbox_width_voxels = 2 /\ metrics.bbox_width_mm = Fin(2000)
    /\ metrics.bbox_height_voxels = 2 /\ metrics.bbox_height_mm = Fin(3000)
    /\ metrics.bbox_depth_voxels = 1 /\ metrics.bbox_depth_mm = Fin(2000)
    /\ metrics.voxel_count = 4 /\ metrics.volume_mm3 = Fin(12 * Mm3)

\* the call under way has ended
CallEnded == entry \in ProcessorEntries /\ pc \in {"returned", "raised"}

\* the calls that have ended, the one under way included, oldest first
EndedExecutions ==
    IF CallEnded
    THEN Append(executions, [call |-> CurrentCall, outcome |-> CurrentOutcome])
    ELSE executions

StageInputs == <<image_data, args, config>>
OutsideState == <<global_state, filesystem>>

\* C21: no step of apply_intensity_threshold,
\* extract_largest_connected_component, TargetRegion's construction,
\* compute_target_metrics, validate_or_raise or
\* process_image_for_target_identification changes the volume, spacing,
\* affine, mask or configuration the call was given, or any state outside the
\* call's own results, the interpreter's global state included.
C21_Pure ==
    [][(entry \in ProcessorEntries)
           => (StageInputs' = StageInputs /\ OutsideState' = OutsideState)]_vars

(***************************************************************************)
(* C22: the voxel-spacing check                                            *)
(***************************************************************************)
\* the voxel-spacing check of the validator has run
SpacingChecked ==
    /\ entry \in {"validate_or_raise", "validate_image_data"}
    /\ pc \in {"affine", "returned", "done"}
    /\ Rank3(image_data)

\* how many messages of the sequence are about the spacing of axis i (0-based)
AboutSpacingAxis(messages, i) ==
    Cardinality({n \in 1..Len(messages) :
                    Contains(messages[n], "spacing dimension " \o ToString(i))})

\* inside [0.01, 50.0] mm but outside the advisory band [0.1, 10.0] mm
SpacingUnusual(sp) ==
    ~SpacingInvalid(sp) /\ (sp.v < TypicalSpacingMin \/ sp.v > TypicalSpacingMax)

\* C22: once the voxel-spacing check has run, the report holds exactly one
\* finding per axis, decided by that axis's spacing alone: an error if the
\* spacing is non-positive, non-finite, below 0.01 mm or above 50.0 mm, a
\* warning and no error if it lies in [0.01, 50.0] but outside [0.1, 10.0],
\* a passed check if it lies in [0.1, 10.0]; 0.01 and 50.0 give a warning,
\* 0.1 and 10.0 a passed check.
C22_SpacingFindings ==
    SpacingChecked =>
        \A i \in 1..3 :
            LET sp == image_data.voxel_spacing[i]
                e == AboutSpacingAxis(report.errors, i - 1)
                w == AboutSpacingAxis(report.warnings, i - 1)
                p == AboutSpacingAxis(report.checks_passed, i - 1)
            IN  /\ e + w + p = 1
                /\ (e = 1) = SpacingInvalid(sp)
                /\ (w = 1) = SpacingUnusual(sp)
                /\ (p = 1) = (~SpacingInvalid(sp) /\ ~SpacingUnusual(sp))
                /\ sp \in {Fin(10), Fin(50000)} => w = 1
                /\ sp \in {Fin(100), Fin(10000)} => p = 1

\* an error on one axis between two axes with warnings
C22_Witness ==
    /\ SpacingChecked
    /\ image_data.voxel_spacing = <<Fin(50), Fin(0), Fin(20000)>>
    /\ Len(report.warnings) >= 2

\* a spacing on the lower physical bound, accepted with a warning
C22_WitnessBound ==
    /\ SpacingChecked
    /\ image_data.voxel_spacing[2] = Fin(MIN_VOXEL_SPACING_MM)
    /\ HasWarningWith(report, "spacing dimension 1")

(***************************************************************************)
(* C23: the bottom row of the affine                                       *)
(***************************************************************************)
\* the affine check of the validator has run on a 4x4 affine with finite entries
AffineChecked ==
    /\ entry \in {"validate_or_raise", "validate_image_data"}
    /\ Returned
    /\ Rank3(image_data)
    /\ AffineWellFormed(image_data)

\* some entry of the fourth row is further than 1e-6 from its entry of [0, 0, 0, 1]
BottomRowOff(affine) ==
    \E j \in 1..4 : Abs(affine.m[4][j].v - expected_bottom[j]) > BottomRowAtol

\* C23: for a 4x4 affine with finite entries the report holds the bottom-row
\* error exactly when some entry of the fourth row differs from its entry of
\* [0, 0, 0, 1] by more than 1e-6.
C23_BottomRowTolerance ==
    AffineChecked =>
        (HasErrorWith(report, "bottom row must be") <=> BottomRowOff(image_data.affine))

\* the greatest voxel count among the components of the foreground S, 0 for
\* an empty foreground
LargestCount(S) ==
    IF S = {} THEN 0
    ELSE LET counts == {Cardinality(k) : k \in ComponentsOf(S)}
         IN  CHOOSE n \in counts : \A m \in counts : m <= n

(***************************************************************************)
(* C24: whenever extract_largest_connected_component returns a component,  *)
(* that component has the greatest voxel count among all components of the *)
(* input mask, whatever min_volume_mm3 is; it returns a component exactly  *)
(* when the mask has a component and the volume of the largest one is at   *)
(* least min_volume_mm3.                                                   *)
(***************************************************************************)
C24_GloballyLargest ==
    Extracted =>
        LET input == Foreground(ExtractMask)
            largest == LargestCount(input)
        IN  /\ Selected # None => Cardinality(Foreground(Selected)) = largest
            /\ Selected # None <=>
                   (input # {}
                    /\ largest * voxel_volume_mm3(ExtractSpacing) >= ExtractMinimum.v)

\* the single voxel clears the minimum of 1 mm^3 too, and the pair is returned
C24_Witness ==
    /\ entry = "extract_largest_connected_component" /\ pc = "returned"
    /\ Foreground(args.binary_mask) = {<<0, 0, 0>>, <<1, 1, 0>>, <<1, 1, 1>>}
    /\ args.voxel_spacing = UnitSpacing
    /\ args.min_volume_mm3 = Fin(1 * Mm3)
    /\ Selected # None
    /\ Foreground(Selected) = {<<1, 1, 0>>, <<1, 1, 1>>}

\* the largest component is too small, and the result is None
C24_WitnessNone ==
    /\ entry = "extract_largest_connected_component" /\ pc = "returned"
    /\ Foreground(args.binary_mask) = {<<0, 0, 0>>, <<1, 1, 0>>, <<1, 1, 1>>}
    /\ args.voxel_spacing = UnitSpacing
    /\ args.min_volume_mm3 = Fin(3 * Mm3)
    /\ Selected = None

\* the step `name` of the stages was begun and ended with exception exc
StepEndedWith(name, exc) ==
    \E n \in 1..Len(steps) :
        steps[n] = [name |-> name, status |-> IF exc = "none" THEN "done" ELSE "failed"]

\* validate_or_raise accepted the volume and the process stage took its first step
ValidatedAndThresholded ==
    /\ entry = "stages_2_to_4"
    /\ StepEndedWith("validate", "none")
    /\ StepTaken("threshold")

(***************************************************************************)
(* C25: for every non-empty volume whose samples are all finite and every  *)
(* percentile in [0, 100] the threshold value is at most the maximum       *)
(* sample and apply_intensity_threshold marks at least one voxel; for a    *)
(* volume that passed validation process_image_for_target_identification   *)
(* does not raise the ProcessingError of a mask without foreground.        *)
(***************************************************************************)
C25_ForegroundNotEmpty ==
    /\ (Thresholded /\ \A x \in PresentValues(ThresholdData) : IsFinite(x)) =>
           /\ FLe(np_percentile(ThresholdData, ThresholdPercentile),
                  InPercentileUnit(np_max(ThresholdData)))
           /\ ForegroundCount(binary_mask) >= 1
    /\ ValidatedAndThresholded => ~StepEndedWith("threshold", "ProcessingError")

\* process_image_for_target_identification returned its TargetRegion
ProcessReturned ==
    /\ entry \in {"process_image_for_target_identification", "stages_2_to_4"}
    /\ StepEndedWith("TargetRegion", "none")

(***************************************************************************)
(* C26: every TargetRegion process_image_for_target_identification returns *)
(* has a voxel count of at least 1 and a volume of at least the configured *)
(* minimum; its mask is one component under 6-connectivity, and every      *)
(* voxel of its mask holds an intensity >= the value at the configured     *)
(* percentile of the input volume, so that the mask lies inside the        *)
(* thresholded mask.                                                       *)
(***************************************************************************)
C26_ReturnedRegion ==
    ProcessReturned =>
        LET region == Foreground(target_region.mask)
            first == CHOOSE c \in region : TRUE
            value == np_percentile(image_data.data,
                                   config.processing.intensity_threshold_percentile)
        IN  /\ target_region.voxel_count >= 1
            /\ target_region.voxel_count = Cardinality(region)
            /\ FLe(config.processing.minimum_component_volume_mm3, target_region.volume_mm3)
            /\ region # {}
            /\ Joined(region, {first}, {first}) = region
            /\ \A c \in region :
                  FLe(value, InPercentileUnit(ValueAt(image_data.data, c)))
            /\ region \subseteq Foreground(binary_mask)

\* of the six voxels above the median of 1..12, all six are returned as one
\* component of 6 mm^3, more than the minimum of 1 mm^3
C26_Witness ==
    /\ entry = "process_image_for_target_identification"
    /\ pc = "returned"
    /\ image_data.data = Ramp12
    /\ image_data.voxel_spacing = UnitSpacing
    /\ config.processing.intensity_threshold_percentile = 50
    /\ config.processing.minimum_component_volume_mm3 = Fin(1 * Mm3)
    /\ target_region # None
    /\ target_region.voxel_count = 6
    /\ Foreground(target_region.mask) = {c \in Coords(<<2, 2, 3>>) : c[1] = 1}

\* the labels ndimage.label assigned whose components clear the minimum and
\* have the greatest volume among those that do
TiedLabels(mask, minimum, spacing) ==
    LET comps == ndimage_label(mask)
        clearing == {l \in 1..Len(comps) : VolumeOf(comps[l], spacing) >= minimum.v}
    IN  {l \in clearing :
            \A m \in clearing : VolumeOf(comps[m], spacing) <= VolumeOf(comps[l], spacing)}

\* the label of the component whose voxels are those of the selection
LabelOfSelection(mask, selection) ==
    CHOOSE l \in 1..Len(ndimage_label(mask)) : ndimage_label(mask)[l] = Foreground(selection)

(***************************************************************************)
(* C27: when several components tie for the greatest volume that clears    *)
(* min_volume_mm3, extract_largest_connected_component returns the one     *)
(* with the smallest label (labels are 1..n in the order the labelling     *)
(* assigned them); what it returns is determined by the mask, the spacing  *)
(* and min_volume_mm3.                                                     *)
(***************************************************************************)
C27_SmallestLabelOfTie ==
    (Extracted /\ Selected # None) =>
        LET tied == TiedLabels(ExtractMask, ExtractMinimum, ExtractSpacing)
            label == LabelOfSelection(ExtractMask, Selected)
        IN  /\ \E l \in tied : ndimage_label(ExtractMask)[l] = Foreground(Selected)
            /\ label \in tied
            /\ \A l \in tied : label <= l

\* three single voxels tie; the one met first in index order has label 1
C27_Witness ==
    /\ entry = "extract_largest_connected_component" /\ pc = "returned"
    /\ Foreground(args.binary_mask) = {<<0, 0, 1>>, <<0, 1, 0>>, <<1, 0, 0>>}
    /\ args.min_volume_mm3 = Fin(1 * Mm3)
    /\ args.voxel_spacing = UnitSpacing
    /\ Cardinality(TiedLabels(args.binary_mask, args.min_volume_mm3, args.voxel_spacing)) = 3
    /\ Selected # None
    /\ Foreground(Selected) = {<<0, 0, 1>>}
    /\ LabelOfSelection(args.binary_mask, Selected) = 1

\* validate_or_raise has ended
ValidateOrRaiseEnded == entry = "validate_or_raise" /\ pc = "done"

\* the message matches the keyword test of one of the three specific types
MatchesSpecificType(err) ==
    IsDimensionalityText(err) \/ IsDataQualityText(err) \/ IsMetadataText(err)

(***************************************************************************)
(* C28: validate_or_raise never raises the generic ValidationError: every  *)
(* error message validate_image_data records (rank, axis size, NaN,        *)
(* infinity, variance, spacing, affine) matches the keyword test of        *)
(* DimensionalityError, DataQualityError or MetadataError, so the final    *)
(* generic branch is not reached.                                          *)
(***************************************************************************)
C28_NeverGeneric ==
    /\ entry \in {"validate_or_raise", "validate_image_data"} =>
           \A n \in 1..Len(report.errors) : MatchesSpecificType(report.errors[n])
    /\ raised # "ValidationError"
    /\ ValidateOrRaiseEnded =>
           (raised \in {"DimensionalityError", "DataQualityError", "MetadataError"}
                <=> ~is_valid(report))

\* a report whose only error is the singular submatrix of the affine
C28_Witness ==
    /\ ValidateOrRaiseEnded
    /\ Len(report.errors) = 1
    /\ HasErrorWith(report, "submatrix is singular")
    /\ raised = "MetadataError"

\* the source file of the run can be opened and parsed, and its array extracted
SourceReadable ==
    LET file == filesystem.input
    IN  /\ file.exists /\ file.readable /\ file.parsable /\ file.extractable
        /\ (EndsWith(file.name, ".nii") \/ EndsWith(file.name, ".nii.gz"))

(***************************************************************************)
(* C29: in run_pipeline validate_or_raise is only called on data of rank 3 *)
(* with a 4x4 affine, load_nifti_image having refused every other rank and *)
(* affine shape with MetadataError: a source file whose array is not 3D    *)
(* ends the run at the load stage with MetadataError and exit code 1, and  *)
(* the validator's rank check records no error inside run_pipeline.        *)
(***************************************************************************)
C29_LoaderGuardsValidator ==
    entry = "run_pipeline" =>
        /\ StepTaken("validate") =>
              /\ ndim(image_data.data) = 3
              /\ image_data.affine.shape = <<4, 4>>
              /\ ~HasErrorWith(report, "requires 3D")
        /\ (StepTaken("load") /\ SourceReadable /\ ndim(filesystem.input.data) # 3) =>
              /\ StepEndedWith("load", "MetadataError")
              /\ raised = "MetadataError"
              /\ ~StepTaken("validate")
              /\ image_data = None
              /\ pc \in {"except", "exit"}
              /\ pc = "exit" => exit_code = 1

\* a file with a 2D array: the run ended at the load stage with exit code 1
C29_Witness ==
    /\ entry = "run_pipeline"
    /\ pc = "exit"
    /\ SourceReadable
    /\ ndim(filesystem.input.data) = 2
    /\ StepEndedWith("load", "MetadataError")
    /\ ~StepTaken("validate")
    /\ exit_code = 1

\* the positions at which the run wrote the file
WritesOf(name) == {n \in 1..Len(filesystem.written) : filesystem.written[n] = name}

(***************************************************************************)
(* C30: run_pipeline writes metrics.json and metrics_report.txt only after *)
(* the process stage has returned a TargetRegion, and metrics.json before  *)
(* metrics_report.txt; when loading, validation or processing fails,       *)
(* neither file is written in the run; a run that fails in the             *)
(* visualization stage returns 1 with both files written.                  *)
(***************************************************************************)
C30_MetricsFilesOrder ==
    entry = "run_pipeline" =>
        /\ \A name \in {"metrics.json", "metrics_report.txt"} :
              /\ Cardinality(WritesOf(name)) <= 1
              /\ Written(name) =>
                    /\ StepEndedWith("TargetRegion", "none")
                    /\ target_region # None
                    /\ metrics # None
        /\ Written("metrics_report.txt") =>
              \E i \in WritesOf("metrics.json") :
                  \A j \in WritesOf("metrics_report.txt") : i < j
        /\ (\E name \in {"set_seeds", "load", "validate", "threshold", "extract"} :
                StepFailed(name)) =>
              ~Written("metrics.json") /\ ~Written("metrics_report.txt")
        /\ StepFailed("visualization") =>
              /\ Written("metrics.json") /\ Written("metrics_report.txt")
              /\ pc = "exit" => exit_code = 1

\* the rendering failed: the run returned 1 and left both metrics files
C30_Witness ==
    /\ entry = "run_pipeline" /\ pc = "exit"
    /\ exit_code = 1
    /\ StepFailed("visualization")
    /\ filesystem.written = <<"pipeline.log", "metrics.json", "metrics_report.txt">>
====
